---- MODULE Spec2Model ----
(***************************************************************************)
(* A model of the Atom feed generator: the BCP 47 language tag validator   *)
(* (bcp47.ts), the field validators (validators.ts) and the RawAtomFeed    *)
(* class (its constructor, entry collection, link list and toXml).         *)
(*                                                                         *)
(* JavaScript values are represented as follows.                           *)
(*   string     a TLA+ string; UNDEFINED stands for an absent (undefined)  *)
(*              string property, "" is the empty string.  Both are falsy.  *)
(*   object     a record; NoObject stands for an absent (undefined) object *)
(*              property.                                                  *)
(*   array      a sequence; an optional array property that is absent is   *)
(*              the empty sequence (the code only tests it for truthiness   *)
(*              and iterates it, so absent and empty behave alike).        *)
(*   Date       [isDate |-> TRUE, nan |-> b, time |-> t], time in whole    *)
(*              days since 1970-01-01T00:00:00.000Z; nan means getTime()   *)
(*              is NaN.  A truthy value that is no Date is NotADate.       *)
(*   exception  an operation returns OK or the message of the Error it     *)
(*              throws; TypeErrorMsg stands for a TypeError raised by the  *)
(*              runtime (property access on undefined, a missing method).  *)
(* Where the code looks inside a string (regular expressions, split), the  *)
(* string is decoded to its sequence of characters by Chars.               *)
(***************************************************************************)
EXTENDS Integers, Sequences, FiniteSets, TLC

(***************************************************************************)
(* Bounds of the model.                                                    *)
(***************************************************************************)
MaxEntries == 3

MaxMutations == 1

\* the most writes a caller makes to stored objects before a rendering
MaxRenderMutations == 2

\* the most subtags of a language tag
MaxSubtags == 5

\* the most links a caller pushes onto a link list
MaxLinks == 3

(***************************************************************************)
(* JavaScript values.                                                      *)
(***************************************************************************)
UNDEFINED == "\\undefined"

NoObject == [undefined |-> TRUE]

OK == "ok"

TypeErrorMsg == "TypeError"

Truthy(s) == s # "" /\ s # UNDEFINED

IsObject(o) == o # NoObject

DateOf(t) == [isDate |-> TRUE, nan |-> FALSE, time |-> t]

InvalidDate == [isDate |-> TRUE, nan |-> TRUE, time |-> 0]

NotADate == [isDate |-> FALSE, nan |-> FALSE, time |-> 0]

\* two more values that are not Date objects: a falsy one (0, the empty
\* string) and an object that has the getTime and toISOString methods of the
\* Date of 2024-01-01 without being an instance of Date
FalsyValue == [isDate |-> FALSE, falsy |-> TRUE]

DuckDate == [isDate |-> FALSE, nan |-> FALSE, time |-> 19723, methods |-> TRUE]

\* if (value)
TruthyValue(v) == v # NoObject /\ v # FalsyValue

\* value.getTime() and value.toISOString() can be called
HasDateMethods(v) == v.isDate \/ v = DuckDate

(***************************************************************************)
(* The characters of the strings the model uses.  String(undefined) is     *)
(* "undefined", which is what atob(undefined) decodes.                     *)
(***************************************************************************)
Chars(s) ==
  CASE
       s = "" -> <<>>
    [] s = "en" -> <<"e", "n">>
    [] s = "e" -> <<"e">>
    [] s = "en-US" -> <<"e", "n", "-", "U", "S">>
    [] s = "http://a" -> <<"h", "t", "t", "p", ":", "/", "/", "a">>
    [] s = "http://b" -> <<"h", "t", "t", "p", ":", "/", "/", "b">>
    [] s = "urn:x" -> <<"u", "r", "n", ":", "x">>
    [] s = "bad" -> <<"b", "a", "d">>
    [] s = "http://a/b c" -> <<"h", "t", "t", "p", ":", "/", "/", "a", "/", "b", " ", "c">>
    [] s = "http://a/b%20c" -> <<"h", "t", "t", "p", ":", "/", "/", "a", "/", "b", "%", "2", "0", "c">>
    [] s = "http://a/\\uD800" -> <<"h", "t", "t", "p", ":", "/", "/", "a", "/", "U+D800">>
    [] s = "a@b.c" -> <<"a", "@", "b", ".", "c">>
    [] s = "a@b" -> <<"a", "@", "b">>
    [] s = "Hello" -> <<"H", "e", "l", "l", "o">>
    [] s = "Title" -> <<"T", "i", "t", "l", "e">>
    [] s = "<em>x</em>" -> <<"<", "e", "m", ">", "x", "<", "/", "e", "m", ">">>
    [] s = "<div xmlns=\"http://www.w3.org/1999/xhtml\">x</div>" -> <<"<", "d", "i", "v", " ", "x", "m", "l", "n", "s", "=", "\"", "h", "t", "t", "p", ":", "/", "/", "w", "w", "w", ".", "w", "3", ".", "o", "r", "g", "/", "1", "9", "9", "9", "/", "x", "h", "t", "m", "l", "\"", ">", "x", "<", "/", "d", "i", "v", ">">>
    [] s = "QQ==" -> <<"Q", "Q", "=", "=">>
    [] s = "div" -> <<"d", "i", "v">>
    [] s = "a" -> <<"a">>
    [] s = "b" -> <<"b">>
    [] s = "AT&amp;T" -> <<"A", "T", "&", "a", "m", "p", ";", "T">>
    [] s = "xmlns" -> <<"x", "m", "l", "n", "s">>
    [] s = "http://www.w3.org/1999/xhtml" -> <<"h", "t", "t", "p", ":", "/", "/", "w", "w", "w", ".", "w", "3", ".", "o", "r", "g", "/", "1", "9", "9", "9", "/", "x", "h", "t", "m", "l">>
    [] s = "Q" -> <<"Q">>
    [] s = "undefined" -> <<"u", "n", "d", "e", "f", "i", "n", "e", "d">>

XhtmlDivOpen ==
  <<"<", "d", "i", "v", " ", "x", "m", "l", "n", "s", "=", "\"", "h", "t", "t", "p", ":", "/", "/", "w", "w", "w", ".", "w", "3", ".", "o", "r", "g", "/", "1", "9", "9", "9", "/", "x", "h", "t", "m", "l", "\"">>

XhtmlDivClose == <<"<", "/", "d", "i", "v", ">">>

LowerLetters ==
  <<"a", "b", "c", "d", "e", "f", "g", "h", "i", "j", "k", "l", "m",
    "n", "o", "p", "q", "r", "s", "t", "u", "v", "w", "x", "y", "z">>

UpperLetters ==
  <<"A", "B", "C", "D", "E", "F", "G", "H", "I", "J", "K", "L", "M",
    "N", "O", "P", "Q", "R", "S", "T", "U", "V", "W", "X", "Y", "Z">>

DigitChars == <<"0", "1", "2", "3", "4", "5", "6", "7", "8", "9">>

Range(f) == {f[i] : i \in DOMAIN f}

IsLower(c) == c \in Range(LowerLetters)

IsUpper(c) == c \in Range(UpperLetters)

IsLetter(c) == IsLower(c) \/ IsUpper(c)

IsDigit(c) == c \in Range(DigitChars)

IsAlnum(c) == IsLetter(c) \/ IsDigit(c)

\* the characters of ASCII in code order: AsciiChars[n + 1] is the character
\* with code n.  A character that has no escape in a string is written by
\* its code point, as are the characters outside ASCII.
AsciiChars ==
  <<"U+0000", "U+0001", "U+0002", "U+0003", "U+0004", "U+0005", "U+0006", "U+0007",
    "U+0008", "\t", "\n", "U+000B", "\f", "\r", "U+000E", "U+000F",
    "U+0010", "U+0011", "U+0012", "U+0013", "U+0014", "U+0015", "U+0016", "U+0017",
    "U+0018", "U+0019", "U+001A", "U+001B", "U+001C", "U+001D", "U+001E", "U+001F",
    " ", "!", "\"", "#", "$", "%", "&", "'",
    "(", ")", "*", "+", ",", "-", ".", "/",
    "0", "1", "2", "3", "4", "5", "6", "7",
    "8", "9", ":", ";", "<", "=", ">", "?",
    "@", "A", "B", "C", "D", "E", "F", "G",
    "H", "I", "J", "K", "L", "M", "N", "O",
    "P", "Q", "R", "S", "T", "U", "V", "W",
    "X", "Y", "Z", "[", "\\", "]", "^", "_",
    "U+0060", "a", "b", "c", "d", "e", "f", "g",
    "h", "i", "j", "k", "l", "m", "n", "o",
    "p", "q", "r", "s", "t", "u", "v", "w",
    "x", "y", "z", "{", "|", "}", "~", "U+007F">>

\* C0 controls (U+0000 to U+001F) and space
C0ControlOrSpace == {AsciiChars[n] : n \in 1..33}

\* the characters \s matches and trim() strips: WhiteSpace and LineTerminator
\* of ECMAScript
WhiteSpaceChars ==
  {" ", "\t", "\n", "\r", "\f", "U+000B", "U+00A0", "U+1680", "U+2000",
   "U+2001", "U+2002", "U+2003", "U+2004", "U+2005", "U+2006", "U+2007",
   "U+2008", "U+2009", "U+200A", "U+2028", "U+2029", "U+202F", "U+205F",
   "U+3000", "U+FEFF"}

IsSpace(c) == c \in WhiteSpaceChars

\* U+212A KELVIN SIGN, the one character outside ASCII that
\* String.prototype.toLowerCase maps to an ASCII letter alone (k)
KelvinSign == "U+212A"

\* an unpaired surrogate code unit, which a JavaScript string can hold and
\* UTF-8 cannot encode
LoneSurrogate == "U+D800"

\* ASCII lowercase: A to Z become a to z, every other character stays
AsciiLowerChar(c) ==
  IF IsUpper(c)
    THEN LowerLetters[CHOOSE i \in DOMAIN UpperLetters : UpperLetters[i] = c]
    ELSE c

AsciiLowerCase(cs) == [i \in DOMAIN cs |-> AsciiLowerChar(cs[i])]

\* the capital letters of Latin-1, U+00C0 to U+00DE without the
\* multiplication sign, and their small letters, U+00E0 to U+00FE without
\* the division sign
UpperLatin1 ==
  <<"U+00C0", "U+00C1", "U+00C2", "U+00C3", "U+00C4", "U+00C5",
    "U+00C6", "U+00C7", "U+00C8", "U+00C9", "U+00CA", "U+00CB",
    "U+00CC", "U+00CD", "U+00CE", "U+00CF", "U+00D0", "U+00D1",
    "U+00D2", "U+00D3", "U+00D4", "U+00D5", "U+00D6", "U+00D8",
    "U+00D9", "U+00DA", "U+00DB", "U+00DC", "U+00DD", "U+00DE">>

LowerLatin1 ==
  <<"U+00E0", "U+00E1", "U+00E2", "U+00E3", "U+00E4", "U+00E5",
    "U+00E6", "U+00E7", "U+00E8", "U+00E9", "U+00EA", "U+00EB",
    "U+00EC", "U+00ED", "U+00EE", "U+00EF", "U+00F0", "U+00F1",
    "U+00F2", "U+00F3", "U+00F4", "U+00F5", "U+00F6", "U+00F8",
    "U+00F9", "U+00FA", "U+00FB", "U+00FC", "U+00FD", "U+00FE">>

CapitalIWithDot == "U+0130"

CombiningDot == "U+0307"

CapitalSigma == "U+03A3"

SmallSigma == "U+03C3"

FinalSigma == "U+03C2"

\* the characters toLowerCase leaves as they are, of the characters modelled
LowerCaseFixed ==
  (Range(AsciiChars) \ Range(UpperLetters)) \cup Range(LowerLatin1)
    \cup WhiteSpaceChars
    \cup {"U+00D7", "U+00DF", "U+00F7", "U+00FF", CombiningDot, SmallSigma,
          FinalSigma, "U+FFFD", LoneSurrogate}

\* the lower-case mapping of one character out of context, as the code units
\* it becomes: the simple mapping of the Unicode character database and the
\* unconditional one of SpecialCasing (U+0130 becomes i followed by U+0307).
\* Defined on ASCII, the letters of Latin-1, the white space characters and
\* the characters named above.
ToLowerChar(c) ==
  CASE IsUpper(c) -> <<AsciiLowerChar(c)>>
    [] c \in Range(UpperLatin1) ->
         <<LowerLatin1[CHOOSE i \in DOMAIN UpperLatin1 : UpperLatin1[i] = c]>>
    [] c = KelvinSign -> <<"k">>
    [] c = CapitalIWithDot -> <<"i", CombiningDot>>
    [] c = CapitalSigma -> <<SmallSigma>>
    [] c \in LowerCaseFixed -> <<c>>

\* Cased and Case_Ignorable of Unicode, on the characters modelled
IsCased(c) ==
  \/ IsLetter(c)
  \/ c \in Range(UpperLatin1) \cup Range(LowerLatin1)
  \/ c \in {"U+00DF", "U+00FF", KelvinSign, CapitalIWithDot, CapitalSigma,
            SmallSigma, FinalSigma}

IsCaseIgnorable(c) ==
  c \in {"'", ".", ":", "^", "U+0060", CombiningDot, "U+FEFF"}

\* a cased letter comes before position i, or after it, with nothing but
\* case-ignorable characters between
RECURSIVE CasedBefore(_, _)
CasedBefore(cs, i) ==
  IF i < 1 THEN FALSE
  ELSE IF IsCaseIgnorable(cs[i]) THEN CasedBefore(cs, i - 1)
  ELSE IsCased(cs[i])

RECURSIVE CasedAfter(_, _)
CasedAfter(cs, i) ==
  IF i > Len(cs) THEN FALSE
  ELSE IF IsCaseIgnorable(cs[i]) THEN CasedAfter(cs, i + 1)
  ELSE IsCased(cs[i])

\* the condition Final_Sigma of SpecialCasing: a capital sigma at the end of
\* a word becomes the final small sigma
IsFinalSigma(cs, i) ==
  /\ cs[i] = CapitalSigma
  /\ CasedBefore(cs, i - 1)
  /\ ~CasedAfter(cs, i + 1)

RECURSIVE LowerFrom(_, _)
LowerFrom(cs, i) ==
  IF i > Len(cs) THEN <<>>
  ELSE (IF IsFinalSigma(cs, i) THEN <<FinalSigma>> ELSE ToLowerChar(cs[i]))
         \o LowerFrom(cs, i + 1)

\* String.prototype.toLowerCase
toLowerCase(cs) == LowerFrom(cs, 1)

AllChars(cs, P(_)) == \A i \in DOMAIN cs : P(cs[i])

StartsWith(cs, prefix) ==
  /\ Len(cs) >= Len(prefix)
  /\ SubSeq(cs, 1, Len(prefix)) = prefix

EndsWith(cs, suffix) ==
  /\ Len(cs) >= Len(suffix)
  /\ SubSeq(cs, Len(cs) - Len(suffix) + 1, Len(cs)) = suffix

\* String.prototype.trim
RECURSIVE TrimLeft(_)
TrimLeft(cs) ==
  IF cs # <<>> /\ IsSpace(Head(cs)) THEN TrimLeft(Tail(cs)) ELSE cs

RECURSIVE TrimRight(_)
TrimRight(cs) ==
  IF cs # <<>> /\ IsSpace(cs[Len(cs)])
    THEN TrimRight(SubSeq(cs, 1, Len(cs) - 1))
    ELSE cs

trim(cs) == TrimRight(TrimLeft(cs))

\* String.prototype.split(sep) for a one-character separator
RECURSIVE SplitFrom(_, _, _)
SplitFrom(cs, sep, cur) ==
  IF cs = <<>> THEN <<cur>>
  ELSE IF Head(cs) = sep THEN <<cur>> \o SplitFrom(Tail(cs), sep, <<>>)
  ELSE SplitFrom(Tail(cs), sep, Append(cur, Head(cs)))

split(cs, sep) == SplitFrom(cs, sep, <<>>)

(***************************************************************************)
(* bcp47.ts: the language tag validator.  A subtag is a sequence of        *)
(* characters; positions are the code's 0-based indices into subtags.      *)
(***************************************************************************)
LettersOnly(subtag, lo, hi) ==
  /\ Len(subtag) >= lo
  /\ Len(subtag) <= hi
  /\ AllChars(subtag, IsLetter)

AlnumOnly(subtag, lo, hi) ==
  /\ Len(subtag) >= lo
  /\ Len(subtag) <= hi
  /\ AllChars(subtag, IsAlnum)

\* the while loop of matchLanguage: pos and extlangCount advance together
RECURSIVE ExtlangWalk(_, _, _)
ExtlangWalk(subtags, pos, extlangCount) ==
  IF pos < Len(subtags) /\ LettersOnly(subtags[pos + 1], 3, 3)
    THEN IF extlangCount + 1 > 3
           THEN [valid |-> FALSE, pos |-> pos]
           ELSE ExtlangWalk(subtags, pos + 1, extlangCount + 1)
    ELSE [valid |-> TRUE, pos |-> pos]

matchLanguage(subtags) ==
  IF Len(subtags) = 0 THEN [valid |-> FALSE, pos |-> 0]
  ELSE IF LettersOnly(subtags[1], 2, 3) THEN ExtlangWalk(subtags, 1, 0)
  ELSE IF LettersOnly(subtags[1], 4, 4) THEN [valid |-> TRUE, pos |-> 1]
  ELSE IF LettersOnly(subtags[1], 5, 8) THEN [valid |-> TRUE, pos |-> 1]
  ELSE [valid |-> FALSE, pos |-> 0]

matchScript(subtag) == LettersOnly(subtag, 4, 4)

matchRegion(subtag) ==
  \/ LettersOnly(subtag, 2, 2)
  \/ (Len(subtag) = 3 /\ AllChars(subtag, IsDigit))

matchVariant(subtag) ==
  \/ (Len(subtag) = 4 /\ IsDigit(subtag[1]) /\ AllChars(subtag, IsAlnum))
  \/ AlnumOnly(subtag, 5, 8)

matchSingleton(subtag) ==
  /\ Len(subtag) = 1
  /\ IsAlnum(subtag[1])
  /\ subtag[1] \notin {"x", "X"}

matchExtensionSubtag(subtag) == AlnumOnly(subtag, 2, 8)

matchPrivateUseSubtag(subtag) == AlnumOnly(subtag, 1, 8)

\* while (pos < subtags.length && match(subtags[pos])) pos++
SubtagMatches(kind, subtag) ==
  CASE kind = "variant" -> matchVariant(subtag)
    [] kind = "extension" -> matchExtensionSubtag(subtag)
    [] kind = "privateuse" -> matchPrivateUseSubtag(subtag)

RECURSIVE SkipWhile(_, _, _)
SkipWhile(subtags, pos, kind) ==
  IF pos < Len(subtags) /\ SubtagMatches(kind, subtags[pos + 1])
    THEN SkipWhile(subtags, pos + 1, kind)
    ELSE pos

\* the extensions loop: the position after the last extension, or -1 when a
\* singleton has no extension subtag after it (the code returns false)
RECURSIVE ExtensionsWalk(_, _)
ExtensionsWalk(subtags, pos) ==
  IF pos < Len(subtags) /\ matchSingleton(subtags[pos + 1])
    THEN IF pos + 1 >= Len(subtags) \/ ~matchExtensionSubtag(subtags[pos + 2])
           THEN -1
           ELSE ExtensionsWalk(subtags,
                               SkipWhile(subtags, pos + 2, "extension"))
    ELSE pos

\* the optional private use part: the final position, or -1 for a dangling x
PrivateUseWalk(subtags, pos) ==
  IF pos < Len(subtags) /\ subtags[pos + 1] = <<"x">>
    THEN IF pos + 1 >= Len(subtags)
           THEN -1
           ELSE SkipWhile(subtags, pos + 1, "privateuse")
    ELSE pos

\* if (pos < subtags.length && matchScript(subtags[pos])) pos++
SkipScript(subtags, pos) ==
  IF pos < Len(subtags) /\ matchScript(subtags[pos + 1]) THEN pos + 1 ELSE pos

\* if (pos < subtags.length && matchRegion(subtags[pos])) pos++
SkipRegion(subtags, pos) ==
  IF pos < Len(subtags) /\ matchRegion(subtags[pos + 1]) THEN pos + 1 ELSE pos

\* return pos === subtags.length, after the private use part
TagEndsAt(subtags, pos) == pos # -1 /\ pos = Len(subtags)

\* the private use part and the final test, from the position the
\* extensions loop ended at
AfterExtensions(subtags, pos) ==
  IF pos = -1 THEN FALSE ELSE TagEndsAt(subtags, PrivateUseWalk(subtags, pos))

\* the tag from the position matchLanguage returned: script, region,
\* variants, extensions, private use
AfterLanguage(subtags, pos) ==
  AfterExtensions(
    subtags,
    ExtensionsWalk(
      subtags,
      SkipWhile(subtags, SkipRegion(subtags, SkipScript(subtags, pos)),
                "variant")))

\* the tag from matchLanguage's result
LanguageFirst(subtags, langResult) ==
  IF ~langResult.valid THEN FALSE ELSE AfterLanguage(subtags, langResult.pos)

\* the tag as its subtags
ValidSubtags(subtags) ==
  IF Len(subtags) = 0 THEN FALSE
  ELSE IF subtags[1] = <<"x">>
    THEN /\ Len(subtags) >= 2
         /\ \A i \in 2..Len(subtags) : matchPrivateUseSubtag(subtags[i])
  ELSE LanguageFirst(subtags, matchLanguage(subtags))

isValidLanguageTag(tag) ==
  IF tag = <<>> THEN FALSE ELSE ValidSubtags(split(toLowerCase(tag), "-"))

(***************************************************************************)
(* validators.ts: the leaf predicates.                                     *)
(***************************************************************************)
IsSchemeChar(c) == IsAlnum(c) \/ c \in {"+", ".", "-"}

\* the index of the first character of cs that is no scheme character
\* (Len(cs) + 1 when there is none)
FirstNonScheme(cs) ==
  IF \E i \in DOMAIN cs : ~IsSchemeChar(cs[i])
    THEN CHOOSE i \in DOMAIN cs :
           /\ ~IsSchemeChar(cs[i])
           /\ \A j \in 1..(i - 1) : IsSchemeChar(cs[j])
    ELSE Len(cs) + 1

\* /^[a-zA-Z][a-z0-9+.-]*:[^\s]*$/i
IriRegexTest(cs) ==
  /\ cs # <<>>
  /\ IsLetter(cs[1])
  /\ LET k == FirstNonScheme(cs)
     IN  /\ k <= Len(cs)
         /\ cs[k] = ":"
         /\ \A i \in (k + 1)..Len(cs) : ~IsSpace(cs[i])

(***************************************************************************)
(* new URL(input) with no base: whether the URL parser of the WHATWG URL   *)
(* Standard, which Node implements, returns a URL or fails.  Hosts are     *)
(* modelled for the characters of ASCII, the white space characters, the   *)
(* Kelvin sign and U+FFFD; percent-escapes of bytes above 7F and labels    *)
(* that start with xn-- are not in the alphabet.                           *)
(***************************************************************************)
SpecialSchemes ==
  {<<"h", "t", "t", "p">>, <<"h", "t", "t", "p", "s">>, <<"w", "s">>,
   <<"w", "s", "s">>, <<"f", "t", "p">>, <<"f", "i", "l", "e">>}

\* the conversion of the argument to a USVString: an unpaired surrogate
\* becomes U+FFFD
ToUSVString(cs) ==
  [i \in DOMAIN cs |-> IF cs[i] = LoneSurrogate THEN "U+FFFD" ELSE cs[i]]

\* leading and trailing C0 controls and spaces are removed
RECURSIVE StripLeadingC0(_)
StripLeadingC0(cs) ==
  IF cs # <<>> /\ Head(cs) \in C0ControlOrSpace
    THEN StripLeadingC0(Tail(cs)) ELSE cs

RECURSIVE StripTrailingC0(_)
StripTrailingC0(cs) ==
  IF cs # <<>> /\ cs[Len(cs)] \in C0ControlOrSpace
    THEN StripTrailingC0(SubSeq(cs, 1, Len(cs) - 1)) ELSE cs

\* ASCII tabs and newlines are removed wherever they are
RemoveTabOrNewline(cs) ==
  SelectSeq(cs, LAMBDA c : c \notin {"\t", "\n", "\r"})

\* special authority ignore slashes state
RECURSIVE SkipSlashes(_)
SkipSlashes(cs) ==
  IF cs # <<>> /\ Head(cs) \in {"/", "\\"} THEN SkipSlashes(Tail(cs)) ELSE cs

\* the authority: the characters before the first / ? or #, and for a special
\* scheme before the first \
RECURSIVE TakeAuthority(_, _)
TakeAuthority(cs, special) ==
  IF cs = <<>> \/ Head(cs) \in {"/", "?", "#"} \/ (special /\ Head(cs) = "\\")
    THEN <<>>
    ELSE <<Head(cs)>> \o TakeAuthority(Tail(cs), special)

\* the position of the last @ of the authority, 0 when it has none
LastAt(auth) ==
  IF \E i \in DOMAIN auth : auth[i] = "@"
    THEN CHOOSE i \in DOMAIN auth :
           /\ auth[i] = "@"
           /\ \A j \in (i + 1)..Len(auth) : auth[j] # "@"
    ELSE 0

\* the characters of the host and port: the authority after its userinfo,
\* as written in the input (tabs and newlines removed)
TakeHost(cs, special) ==
  SubSeq(TakeAuthority(RemoveTabOrNewline(cs), special),
         LastAt(TakeAuthority(RemoveTabOrNewline(cs), special)) + 1,
         Len(TakeAuthority(RemoveTabOrNewline(cs), special)))

\* the position of the first colon outside square brackets from position i
\* on, 0 when there is none: the colon that ends the host
RECURSIVE FirstColon(_, _, _)
FirstColon(host, i, insideBrackets) ==
  IF i > Len(host) THEN 0
  ELSE IF host[i] = ":" /\ ~insideBrackets THEN i
  ELSE FirstColon(host, i + 1,
                  IF host[i] = "[" THEN TRUE
                  ELSE IF host[i] = "]" THEN FALSE
                  ELSE insideBrackets)

HexDigitChars ==
  <<"0", "1", "2", "3", "4", "5", "6", "7", "8", "9",
    "a", "b", "c", "d", "e", "f">>

IsHexDigit(c) == IsDigit(c) \/ c \in {"a", "b", "c", "d", "e", "f",
                                      "A", "B", "C", "D", "E", "F"}

HexValue(c) ==
  (CHOOSE n \in DOMAIN HexDigitChars : HexDigitChars[n] = AsciiLowerChar(c)) - 1

Smaller(a, b) == IF a < b THEN a ELSE b

\* the port as a number, 65536 standing for every greater one
RECURSIVE PortValue(_, _)
PortValue(port, value) ==
  IF port = <<>> THEN value
  ELSE PortValue(Tail(port),
                 Smaller(value * 10 + HexValue(Head(port)), 65536))

\* port state: digits only, and no more than 65535
PortParses(port) ==
  /\ \A i \in DOMAIN port : IsDigit(port[i])
  /\ PortValue(port, 0) <= 65535

\* the position after the digits that start at position p
RECURSIVE SkipDigits(_, _)
SkipDigits(cs, p) ==
  IF p <= Len(cs) /\ IsDigit(cs[p]) THEN SkipDigits(cs, p + 1) ELSE p

\* the position after the hexadecimal digits, max at most, that start at p
RECURSIVE SkipHexDigits(_, _, _)
SkipHexDigits(cs, p, max) ==
  IF max > 0 /\ p <= Len(cs) /\ IsHexDigit(cs[p])
    THEN SkipHexDigits(cs, p + 1, max - 1) ELSE p

\* the IPv6 parser on the address part that holds an IPv4 address, from
\* position p on
RECURSIVE IPv6Ipv4Parses(_, _, _)
IPv6Ipv4Parses(cs, p, numbersSeen) ==
  IF p > Len(cs) THEN numbersSeen = 4
  ELSE IF numbersSeen > 0 /\ (cs[p] # "." \/ numbersSeen >= 4) THEN FALSE
  ELSE
    LET start == IF numbersSeen > 0 THEN p + 1 ELSE p
        run == SkipDigits(cs, start) - start
    IN  /\ run \in 1..3
        /\ run > 1 => cs[start] # "0"
        /\ PortValue(SubSeq(cs, start, start + run - 1), 0) <= 255
        /\ IPv6Ipv4Parses(cs, start + run, numbersSeen + 1)

\* the IPv6 parser from position p on, pieceIndex pieces read, compress set
\* or not
RECURSIVE IPv6PiecesParse(_, _, _, _)
IPv6PiecesParse(cs, p, pieceIndex, compress) ==
  IF p > Len(cs) THEN compress \/ pieceIndex = 8
  ELSE IF pieceIndex = 8 THEN FALSE
  ELSE IF cs[p] = ":"
    THEN ~compress /\ IPv6PiecesParse(cs, p + 1, pieceIndex + 1, TRUE)
  ELSE
    LET q == SkipHexDigits(cs, p, 4)
    IN  IF q > Len(cs) THEN IPv6PiecesParse(cs, q, pieceIndex + 1, compress)
        ELSE IF cs[q] = "."
          THEN /\ q > p
               /\ pieceIndex <= 6
               /\ IPv6Ipv4Parses(cs, p, 0)
               /\ (compress \/ pieceIndex + 2 = 8)
        ELSE IF cs[q] = ":"
          THEN /\ q + 1 <= Len(cs)
               /\ IPv6PiecesParse(cs, q + 1, pieceIndex + 1, compress)
        ELSE FALSE

IPv6Parses(cs) ==
  IF cs # <<>> /\ cs[1] = ":"
    THEN /\ Len(cs) >= 2
         /\ cs[2] = ":"
         /\ IPv6PiecesParse(cs, 3, 1, TRUE)
    ELSE IPv6PiecesParse(cs, 1, 0, FALSE)

ForbiddenHostCodePoints ==
  {"U+0000", "\t", "\n", "\r", " ", "#", "/", ":", "<", ">", "?", "@", "[",
   "\\", "]", "^", "|"}

ForbiddenDomainCodePoints ==
  ForbiddenHostCodePoints \cup C0ControlOrSpace \cup {"%", "U+007F"}

\* the character of a percent-decoded byte
ByteChar(n) == CASE n < 128 -> AsciiChars[n + 1]

RECURSIVE PercentDecode(_)
PercentDecode(cs) ==
  IF cs = <<>> THEN <<>>
  ELSE IF Head(cs) = "%" /\ Len(cs) >= 3 /\ IsHexDigit(cs[2])
            /\ IsHexDigit(cs[3])
    THEN <<ByteChar(16 * HexValue(cs[2]) + HexValue(cs[3]))>>
         \o PercentDecode(SubSeq(cs, 4, Len(cs)))
  ELSE <<Head(cs)>> \o PercentDecode(Tail(cs))

\* what the mapping of UTS #46 makes of a character: a letter in lower case,
\* nothing for an ignored character, a space for the spaces (without the
\* STD3 rules), U+FFFD for a disallowed one
IdnaMap(c) ==
  CASE c \in Range(AsciiChars) -> <<AsciiLowerChar(c)>>
    [] c = KelvinSign -> <<"k">>
    [] c = "U+FEFF" -> <<>>
    [] c \in {"U+00A0", "U+2000", "U+2001", "U+2002", "U+2003", "U+2004",
              "U+2005", "U+2006", "U+2007", "U+2008", "U+2009", "U+200A",
              "U+202F", "U+205F", "U+3000"} -> <<" ">>
    [] c \in {"U+FFFD", "U+1680", "U+2028", "U+2029"} -> <<"U+FFFD">>

RECURSIVE DomainToAscii(_)
DomainToAscii(domain) ==
  IF domain = <<>> THEN <<>>
  ELSE IdnaMap(Head(domain)) \o DomainToAscii(Tail(domain))

\* the parts of a domain between its dots, without the empty last one
IPv4Parts(domain) ==
  IF Len(split(domain, ".")) > 1
       /\ split(domain, ".")[Len(split(domain, "."))] = <<>>
    THEN SubSeq(split(domain, "."), 1, Len(split(domain, ".")) - 1)
    ELSE split(domain, ".")

IPv4Radix(part) ==
  IF Len(part) >= 2 /\ part[1] = "0" /\ part[2] \in {"x", "X"} THEN 16
  ELSE IF Len(part) >= 2 /\ part[1] = "0" THEN 8
  ELSE 10

IPv4Digits(part) ==
  IF IPv4Radix(part) = 16 THEN SubSeq(part, 3, Len(part))
  ELSE IF IPv4Radix(part) = 8 THEN Tail(part)
  ELSE part

\* the IPv4 number parser does not fail
IPv4NumberParses(part) ==
  /\ part # <<>>
  /\ \A i \in DOMAIN IPv4Digits(part) :
       /\ IsHexDigit(IPv4Digits(part)[i])
       /\ HexValue(IPv4Digits(part)[i]) < IPv4Radix(part)

\* a number of the IPv4 parser in two limbs, its value hi * 65536 + lo; hi
\* stops at 65536, which stands for every number from 2^32 on
RECURSIVE RadixValue(_, _, _)
RadixValue(digits, radix, value) ==
  IF digits = <<>> THEN value
  ELSE RadixValue(
         Tail(digits), radix,
         [hi |-> Smaller(value.hi * radix
                           + ((value.lo * radix + HexValue(Head(digits)))
                                \div 65536),
                         65536),
          lo |-> (value.lo * radix + HexValue(Head(digits))) % 65536])

IPv4Number(part) ==
  RadixValue(IPv4Digits(part), IPv4Radix(part), [hi |-> 0, lo |-> 0])

\* the ends-in-a-number checker
EndsInNumber(domain) ==
  LET last == IPv4Parts(domain)[Len(IPv4Parts(domain))]
  IN  \/ last # <<>> /\ \A i \in DOMAIN last : IsDigit(last[i])
      \/ IPv4NumberParses(last)

\* the IPv4 parser: four parts at most, each a number, each but the last 255
\* at most, the last one less than 256^(5 - the number of parts)
IPv4Parses(domain) ==
  LET parts == IPv4Parts(domain)
      n == Len(parts)
  IN  /\ n <= 4
      /\ \A i \in 1..n : IPv4NumberParses(parts[i])
      /\ \A i \in 1..(n - 1) :
           IPv4Number(parts[i]).hi = 0 /\ IPv4Number(parts[i]).lo <= 255
      /\ CASE n = 1 -> IPv4Number(parts[n]).hi < 65536
           [] n = 2 -> IPv4Number(parts[n]).hi < 256
           [] n = 3 -> IPv4Number(parts[n]).hi = 0
           [] n = 4 -> IPv4Number(parts[n]).hi = 0
                       /\ IPv4Number(parts[n]).lo < 256

\* the host parser on a host that is a domain: percent-decoding, domain to
\* ASCII, the forbidden domain code points, and the IPv4 parser when the
\* domain ends in a number
DomainParses(host) ==
  LET ascii == DomainToAscii(PercentDecode(host))
  IN  /\ ascii # <<>>
      /\ \A i \in DOMAIN ascii :
           ascii[i] \notin ForbiddenDomainCodePoints \cup {"U+FFFD"}
      /\ CASE \A i \in DOMAIN split(ascii, ".") :
                ~StartsWith(split(ascii, ".")[i], <<"x", "n", "-", "-">>) ->
                  EndsInNumber(ascii) => IPv4Parses(ascii)

\* the host parser: an IPv6 address in brackets, an opaque host for a scheme
\* that is not special, a domain or IPv4 address otherwise
HostParses(host, isOpaque) ==
  IF host # <<>> /\ host[1] = "["
    THEN /\ host[Len(host)] = "]"
         /\ IPv6Parses(SubSeq(host, 2, Len(host) - 1))
  ELSE IF isOpaque
    THEN \A i \in DOMAIN host : host[i] \notin ForbiddenHostCodePoints
  ELSE DomainParses(host)

\* host state and port state on the characters after the userinfo: colon is
\* the position of the colon that ends the host, 0 when there is none
HostPortParses(host, colon, special) ==
  IF colon = 0
    THEN /\ special => host # <<>>
         /\ HostParses(host, ~special)
    ELSE /\ colon > 1
         /\ HostParses(SubSeq(host, 1, colon - 1), ~special)
         /\ PortParses(SubSeq(host, colon + 1, Len(host)))

\* authority state: an authority with userinfo needs a host
AuthorityParses(cs, special) ==
  /\ LastAt(TakeAuthority(cs, special)) < Len(TakeAuthority(cs, special))
       \/ TakeAuthority(cs, special) = <<>>
  /\ HostPortParses(TakeHost(cs, special),
                    FirstColon(TakeHost(cs, special), 1, FALSE), special)

\* file host state: a Windows drive letter is a path, an empty host is
\* allowed, any other host is parsed
FileHostParses(buffer) ==
  \/ Len(buffer) = 2 /\ IsLetter(buffer[1]) /\ buffer[2] \in {":", "|"}
  \/ buffer = <<>>
  \/ HostParses(buffer, FALSE)

\* file state and file slash state
FileParses(rest) ==
  IF Len(rest) >= 2 /\ rest[1] \in {"/", "\\"} /\ rest[2] \in {"/", "\\"}
    THEN FileHostParses(TakeAuthority(SubSeq(rest, 3, Len(rest)), TRUE))
    ELSE TRUE

\* cs with its scheme ending before position k: a file URL, a URL of
\* another special scheme (its authority follows any number of slashes), a
\* URL with an authority after //, or a URL with a path only
SchemeParses(cs, k) ==
  /\ k <= Len(cs)
  /\ cs[k] = ":"
  /\ LET scheme == AsciiLowerCase(SubSeq(cs, 1, k - 1))
         rest == SubSeq(cs, k + 1, Len(cs))
     IN  IF scheme = <<"f", "i", "l", "e">> THEN FileParses(rest)
         ELSE IF scheme \in SpecialSchemes
           THEN AuthorityParses(SkipSlashes(rest), TRUE)
         ELSE IF StartsWith(rest, <<"/", "/">>)
           THEN AuthorityParses(SubSeq(rest, 3, Len(rest)), FALSE)
         ELSE TRUE

\* the parser on the input without its outer C0 controls and spaces and
\* without tabs and newlines: scheme start state and scheme state
TrimmedUrlParses(cs) ==
  /\ cs # <<>>
  /\ IsLetter(cs[1])
  /\ SchemeParses(cs, FirstNonScheme(cs))

UrlParses(iri) ==
  TrimmedUrlParses(
    RemoveTabOrNewline(StripTrailingC0(StripLeadingC0(ToUSVString(iri)))))

isValidIri(iri) ==
  IF UrlParses(Chars(iri)) THEN TRUE ELSE IriRegexTest(Chars(iri))

\* /^[^@\s]+@[^@\s]+\.[^@\s]+$/
isValidEmail(email) ==
  LET cs == Chars(email)
  IN  /\ \A i \in DOMAIN cs : ~IsSpace(cs[i])
      /\ Cardinality({i \in DOMAIN cs : cs[i] = "@"}) = 1
      /\ LET at == CHOOSE i \in DOMAIN cs : cs[i] = "@"
         IN  /\ at > 1
             /\ \E dot \in (at + 2)..(Len(cs) - 1) : cs[dot] = "."

Base64Alphabet == UpperLetters \o LowerLetters \o DigitChars \o <<"+", "/">>

Base64Value(c) ==
  (CHOOSE i \in DOMAIN Base64Alphabet : Base64Alphabet[i] = c) - 1

IsBase64Char(c) == c \in Range(Base64Alphabet)

\* btoa(atob(str)) === str: atob accepts unpadded and non-canonical input,
\* btoa always produces the padded canonical form, so the round trip is the
\* identity exactly on padded canonical base64 (the empty string included).
\* atob(undefined) decodes the string "undefined".
isValidBase64(str) ==
  LET cs == IF str = UNDEFINED THEN Chars("undefined") ELSE Chars(str)
      n == Len(cs)
      pad == IF n >= 2 /\ cs[n] = "=" /\ cs[n - 1] = "=" THEN 2
             ELSE IF n >= 1 /\ cs[n] = "=" THEN 1
             ELSE 0
  IN  /\ n % 4 = 0
      /\ \A i \in 1..(n - pad) : IsBase64Char(cs[i])
      /\ pad = 1 => Base64Value(cs[n - 1]) % 4 = 0
      /\ pad = 2 => Base64Value(cs[n - 2]) % 16 = 0

\* Date.prototype.toISOString for a valid date of whole days: the civil date
\* of day number t (the time of day is always 00:00:00.000)
YearOfEra(doe) ==
  (doe - doe \div 1460 + doe \div 36524 - doe \div 146096) \div 365

DayOfYear(doe, yoe) == doe - (365 * yoe + yoe \div 4 - yoe \div 100)

MonthPart(doy) == (5 * doy + 2) \div 153

MonthOf(mp) == IF mp < 10 THEN mp + 3 ELSE mp - 9

CivilDate(era, yoe, doy, mp) ==
  [year |-> yoe + era * 400 + (IF MonthOf(mp) <= 2 THEN 1 ELSE 0),
   month |-> MonthOf(mp),
   day |-> doy - (153 * mp + 2) \div 5 + 1]

CivilOfDayOfYear(era, yoe, doy) == CivilDate(era, yoe, doy, MonthPart(doy))

CivilOfYearOfEra(era, doe, yoe) ==
  CivilOfDayOfYear(era, yoe, DayOfYear(doe, yoe))

CivilOfDayOfEra(era, doe) == CivilOfYearOfEra(era, doe, YearOfEra(doe))

toISOString(t) ==
  CivilOfDayOfEra((t + 719468) \div 146097, (t + 719468) % 146097)

YearHasFourDigits(iso) == iso.year >= 0 /\ iso.year <= 9999

\* /^\d{4}-\d{2}-\d{2}T\d{2}:\d{2}:\d{2}(\.\d{3})?Z$/ : toISOString writes a
\* year outside 0..9999 with a sign and six digits
isValidRfc3339Date(date) ==
  IF date.nan THEN FALSE
  ELSE YearHasFourDigits(toISOString(date.time))

\* content.trim().match(/^<div xmlns="http:\/\/www\.w3\.org\/1999\/xhtml".*>.*<\/div>$/s)
isValidXhtmlContent(content) ==
  LET cs == trim(Chars(content))
      n == Len(cs)
  IN  /\ StartsWith(cs, XhtmlDivOpen)
      /\ \E gt \in (Len(XhtmlDivOpen) + 1)..n :
           /\ cs[gt] = ">"
           /\ EndsWith(SubSeq(cs, gt + 1, n), XhtmlDivClose)

(***************************************************************************)
(* validators.ts: the construct validators.  Each returns OK or the        *)
(* message of the first Error it throws.                                   *)
(***************************************************************************)
\* array.forEach(validate): the first error among the results, in order
FirstError(results) ==
  IF \E i \in DOMAIN results : results[i] # OK
    THEN results[CHOOSE i \in DOMAIN results :
                   /\ results[i] # OK
                   /\ \A j \in 1..(i - 1) : results[j] = OK]
    ELSE OK

\* statements in sequence that collect errors: the last error is reported
Then_LastError(result, rest) == IF rest # OK THEN rest ELSE result

\* two statements in sequence: the error the first throws, else the rest
Then(result, rest) == IF result # OK THEN result ELSE rest

\* validateTextConstruct: OK or the error it throws
validateTextConstruct(text, field) ==
  IF ~Truthy(text.content) THEN field \o " content is required"
  ELSE IF Truthy(text.type) /\ text.type \notin {"text", "html", "xhtml"}
    THEN "Invalid " \o field \o " type: must be 'text', 'html', or 'xhtml'"
  ELSE IF Truthy(text.lang) /\ ~isValidLanguageTag(Chars(text.lang))
    THEN "Invalid language tag in " \o field
  ELSE IF text.type = "xhtml" /\ ~isValidXhtmlContent(text.content)
    THEN field \o " with type=\"xhtml\" must contain a single div element"
  ELSE IF Truthy(text.base) /\ ~isValidIri(text.base)
    THEN "Invalid base IRI in " \o field
  ELSE OK

validatePerson(person) ==
  IF ~Truthy(person.name) THEN "Person name is required"
  ELSE IF Truthy(person.uri) /\ ~isValidIri(person.uri)
    THEN "Invalid person URI: " \o person.uri
  ELSE IF Truthy(person.email) /\ ~isValidEmail(person.email)
    THEN "Invalid person email: " \o person.email
  ELSE OK

validateCategory(category) ==
  IF ~Truthy(category.term) THEN "Category term is required"
  ELSE IF Truthy(category.scheme) /\ ~isValidIri(category.scheme)
    THEN "Invalid category scheme: " \o category.scheme
  ELSE OK

validateLink(link) ==
  IF ~Truthy(link.href) THEN "Link href is required"
  ELSE IF ~isValidIri(link.href) THEN "Invalid link href: " \o link.href
  ELSE IF Truthy(link.hreflang) /\ ~isValidLanguageTag(Chars(link.hreflang))
    THEN "Invalid link hreflang: " \o link.hreflang
  ELSE OK

\* validateContent without its checks of content against src
validateContent_NoExclusivity(content) ==
  IF Truthy(content.src) /\ ~isValidIri(content.src)
    THEN "Invalid content src: " \o content.src
  ELSE IF content.type = "xhtml" /\ content.content = UNDEFINED
    THEN TypeErrorMsg
  ELSE IF content.type = "xhtml" /\ ~isValidXhtmlContent(content.content)
    THEN "XHTML content must contain a single div element"
  ELSE IF content.type = "base64" /\ ~isValidBase64(content.content)
    THEN "Invalid base64 content"
  ELSE IF Truthy(content.lang) /\ ~isValidLanguageTag(Chars(content.lang))
    THEN "Invalid content language tag"
  ELSE IF Truthy(content.base) /\ ~isValidIri(content.base)
    THEN "Invalid content base IRI"
  ELSE OK

validateContent(content) ==
  IF ~Truthy(content.content) /\ ~Truthy(content.src)
    THEN "Content must have either content or src"
  ELSE IF Truthy(content.content) /\ Truthy(content.src)
    THEN "Content cannot have both content and src"
  ELSE IF Truthy(content.src) /\ ~isValidIri(content.src)
    THEN "Invalid content src: " \o content.src
  ELSE IF content.type = "xhtml" /\ content.content = UNDEFINED
    THEN TypeErrorMsg
  ELSE IF content.type = "xhtml" /\ ~isValidXhtmlContent(content.content)
    THEN "XHTML content must contain a single div element"
  ELSE IF content.type = "base64" /\ ~isValidBase64(content.content)
    THEN "Invalid base64 content"
  ELSE IF Truthy(content.lang) /\ ~isValidLanguageTag(Chars(content.lang))
    THEN "Invalid content language tag"
  ELSE IF Truthy(content.base) /\ ~isValidIri(content.base)
    THEN "Invalid content base IRI"
  ELSE OK

validateFeedOptions(options) ==
  IF ~Truthy(options.id) THEN "Feed id is required"
  ELSE IF ~IsObject(options.title) THEN "Feed title is required"
  ELSE IF ~TruthyValue(options.updated)
    THEN "Feed updated date is required"
  ELSE IF ~options.updated.isDate THEN "Feed updated must be a Date object"
  ELSE IF ~isValidRfc3339Date(options.updated) THEN "Invalid RFC 3339 date"
  ELSE IF Truthy(options.lang) /\ ~isValidLanguageTag(Chars(options.lang))
    THEN "Invalid language tag"
  ELSE
    Then(validateTextConstruct(options.title, "Feed title"),
    Then(IF IsObject(options.subtitle)
           THEN validateTextConstruct(options.subtitle, "Feed subtitle")
           ELSE OK,
    Then(IF IsObject(options.rights)
           THEN validateTextConstruct(options.rights, "Feed rights")
           ELSE OK,
      IF Truthy(options.icon) /\ ~isValidIri(options.icon)
        THEN "Invalid icon IRI"
      ELSE IF Truthy(options.logo) /\ ~isValidIri(options.logo)
        THEN "Invalid logo IRI"
      ELSE IF Truthy(options.base) /\ ~isValidIri(options.base)
        THEN "Invalid xml:base IRI"
      ELSE FirstError(
             [i \in DOMAIN options.authors |->
                validatePerson(options.authors[i])]
             \o [i \in DOMAIN options.contributors |->
                   validatePerson(options.contributors[i])]
             \o [i \in DOMAIN options.categories |->
                   validateCategory(options.categories[i])]
             \o [i \in DOMAIN options.links |->
                   validateLink(options.links[i])]))))

validateEntry(entry) ==
  IF ~Truthy(entry.id) THEN "Entry id is required"
  ELSE IF ~IsObject(entry.title) THEN "Entry title is required"
  ELSE IF ~TruthyValue(entry.updated) THEN "Entry updated date is required"
  ELSE IF ~entry.updated.isDate THEN "Entry updated must be a Date object"
  ELSE IF ~isValidRfc3339Date(entry.updated)
    THEN "Entry updated must be a valid RFC 3339 date"
  ELSE
    Then(validateTextConstruct(entry.title, "Entry title"),
    Then(IF IsObject(entry.content) THEN validateContent(entry.content) ELSE OK,
    Then(IF IsObject(entry.summary)
           THEN validateTextConstruct(entry.summary, "Entry summary")
           ELSE OK,
    Then(IF IsObject(entry.rights)
           THEN validateTextConstruct(entry.rights, "Entry rights")
           ELSE OK,
    Then(FirstError(
           [i \in DOMAIN entry.authors |-> validatePerson(entry.authors[i])]
           \o [i \in DOMAIN entry.contributors |->
                 validatePerson(entry.contributors[i])]
           \o [i \in DOMAIN entry.categories |->
                 validateCategory(entry.categories[i])]
           \o [i \in DOMAIN entry.links |-> validateLink(entry.links[i])]),
      IF TruthyValue(entry.published) /\ ~HasDateMethods(entry.published)
        THEN TypeErrorMsg
      ELSE IF TruthyValue(entry.published)
                /\ ~isValidRfc3339Date(entry.published)
        THEN "Entry published must be a valid RFC 3339 date"
      ELSE OK)))))

(***************************************************************************)
(* Runtime functions toXml uses: encodeURI and the ISO rendering of dates. *)
(***************************************************************************)
RECURSIVE Join(_)
Join(strings) ==
  IF strings = <<>> THEN "" ELSE Head(strings) \o Join(Tail(strings))

UriUnescaped ==
  Range(LowerLetters) \cup Range(UpperLetters) \cup Range(DigitChars)
  \cup {";", "/", "?", ":", "@", "&", "=", "+", "$", ",", "#",
        "-", "_", ".", "!", "~", "*", "'", "(", ")"}

\* %XX of the UTF-8 byte of an ASCII character that encodeURI escapes
PercentEncoded(c) ==
  CASE c = " " -> "%20"
    [] c = "\"" -> "%22"
    [] c = "%" -> "%25"
    [] c = "<" -> "%3C"
    [] c = ">" -> "%3E"

URIErrorMsg == "URIError"

\* what encodeURI throws: a URIError when the string holds an unpaired
\* surrogate
encodeURIError(uri) ==
  IF \E i \in DOMAIN Chars(uri) : Chars(uri)[i] = LoneSurrogate
    THEN URIErrorMsg ELSE OK

encodeURI(uri) ==
  LET cs == Chars(uri)
  IN  Join([i \in DOMAIN cs |->
              IF cs[i] \in UriUnescaped THEN cs[i] ELSE PercentEncoded(cs[i])])

Digits2(n) == DigitChars[(n \div 10) + 1] \o DigitChars[(n % 10) + 1]

Digits4(n) == Digits2(n \div 100) \o Digits2(n % 100)

\* date.toISOString() as text, for a date isValidRfc3339Date accepts
IsoFormat(iso) ==
  Digits4(iso.year) \o "-" \o Digits2(iso.month) \o "-" \o Digits2(iso.day)
  \o "T00:00:00.000Z"

IsoText(t) == IsoFormat(toISOString(t))

(***************************************************************************)
(* RawAtomFeed: the element tree toXml hands to js2xml.  An element is     *)
(* [type, name, attributes, elements] with attributes a sequence of        *)
(* <<name, value>> pairs in insertion order; a text node is [type, text].  *)
(***************************************************************************)
Element(name, attributes, elements) ==
  [type |-> "element", name |-> name, attributes |-> attributes,
   elements |-> elements]

TextNode(text) == [type |-> "text", text |-> text]

\* the attribute name/value when the value is truthy, nothing otherwise
Attr(name, value) == IF Truthy(value) THEN <<<<name, value>>>> ELSE <<>>

\* getElementName that ignores useNamespacePrefix
getElementName_NoPrefix(useNamespacePrefix, name) == name

getElementName(useNamespacePrefix, name) ==
  IF useNamespacePrefix THEN "atom:" \o name ELSE name

\* what formatDate throws: OK when it returns
formatDateError(date) ==
  IF ~IsObject(date) \/ ~HasDateMethods(date) THEN TypeErrorMsg
  ELSE IF date.nan THEN "Invalid RFC 3339 date"
  ELSE IF ~isValidRfc3339Date(date) THEN "Invalid RFC 3339 date"
  ELSE OK

formatDate(date) == IsoText(date.time)

XhtmlDiv(content) ==
  Element("div", <<<<"xmlns", "http://www.w3.org/1999/xhtml">>>>,
          <<TextNode(content)>>)

createTextConstructElement(ns, text, name) ==
  Element(getElementName(ns, name),
          Attr("type", text.type) \o Attr("xml:lang", text.lang)
            \o Attr("xml:base", text.base),
          IF text.type = "xhtml"
            THEN <<XhtmlDiv(text.content)>>
            ELSE <<TextNode(text.content)>>)

SimpleElement(ns, name, text) ==
  Element(getElementName(ns, name), <<>>, <<TextNode(text)>>)

createPersonElement(ns, person, name) ==
  Element(getElementName(ns, name), <<>>,
          <<SimpleElement(ns, "name", person.name)>>
            \o (IF Truthy(person.email)
                  THEN <<SimpleElement(ns, "email", person.email)>> ELSE <<>>)
            \o (IF Truthy(person.uri)
                  THEN <<SimpleElement(ns, "uri", person.uri)>> ELSE <<>>))

createCategoryElement(ns, category) ==
  Element(getElementName(ns, "category"),
          <<<<"term", category.term>>>> \o Attr("scheme", category.scheme)
            \o Attr("label", category.label),
          <<>>)

createLinkElement(ns, link) ==
  Element(getElementName(ns, "link"),
          <<<<"href", encodeURI(link.href)>>>> \o Attr("rel", link.rel)
            \o Attr("type", link.type) \o Attr("hreflang", link.hreflang)
            \o Attr("title", link.title) \o Attr("length", link.length),
          <<>>)

\* createContentElement that writes the child nodes whether or not there is a
\* src
createContentElement_AlwaysChild(ns, content) ==
  Element(getElementName(ns, "content"),
          Attr("type", content.type) \o Attr("xml:lang", content.lang)
            \o Attr("xml:base", content.base) \o Attr("src", content.src),
          IF content.type = "xhtml" THEN <<XhtmlDiv(content.content)>>
          ELSE <<TextNode(content.content)>>)

createContentElement(ns, content) ==
  Element(getElementName(ns, "content"),
          Attr("type", content.type) \o Attr("xml:lang", content.lang)
            \o Attr("xml:base", content.base) \o Attr("src", content.src),
          IF Truthy(content.src) THEN <<>>
          ELSE IF content.type = "xhtml" THEN <<XhtmlDiv(content.content)>>
          ELSE <<TextNode(content.content)>>)

\* what the createLinkElement calls on a list of links throw
createLinkElementsError(links) ==
  FirstError([i \in DOMAIN links |-> encodeURIError(links[i].href)])

\* what createEntryElement throws, OK when it returns: the title element
\* reads entry.title.type, then updated is formatted, each link href is
\* encoded and published is formatted, in the order of the children
createEntryElementError(entry) ==
  IF ~IsObject(entry.title) THEN TypeErrorMsg
  ELSE IF formatDateError(entry.updated) # OK
    THEN formatDateError(entry.updated)
  ELSE IF createLinkElementsError(entry.links) # OK THEN URIErrorMsg
  ELSE IF TruthyValue(entry.published)
    THEN formatDateError(entry.published)
  ELSE OK

\* createEntryElement that pushes the content element after the links
createEntryElement_ContentLate(ns, entry) ==
  Element(getElementName(ns, "entry"), <<>>,
    <<SimpleElement(ns, "id", entry.id),
      createTextConstructElement(ns, entry.title, "title"),
      SimpleElement(ns, "updated", formatDate(entry.updated))>>
    \o [i \in DOMAIN entry.authors |->
          createPersonElement(ns, entry.authors[i], "author")]
    \o [i \in DOMAIN entry.contributors |->
          createPersonElement(ns, entry.contributors[i], "contributor")]
    \o [i \in DOMAIN entry.categories |->
          createCategoryElement(ns, entry.categories[i])]
    \o [i \in DOMAIN entry.links |-> createLinkElement(ns, entry.links[i])]
    \o (IF IsObject(entry.content)
          THEN <<createContentElement(ns, entry.content)>> ELSE <<>>)
    \o (IF TruthyValue(entry.published)
          THEN <<SimpleElement(ns, "published", formatDate(entry.published))>>
          ELSE <<>>)
    \o (IF IsObject(entry.rights)
          THEN <<createTextConstructElement(ns, entry.rights, "rights")>>
          ELSE <<>>)
    \o (IF Truthy(entry.source)
          THEN <<SimpleElement(ns, "source", entry.source)>> ELSE <<>>)
    \o (IF IsObject(entry.summary)
          THEN <<createTextConstructElement(ns, entry.summary, "summary")>>
          ELSE <<>>))

createEntryElement(ns, entry) ==
  Element(getElementName(ns, "entry"), <<>>,
    <<SimpleElement(ns, "id", entry.id),
      createTextConstructElement(ns, entry.title, "title"),
      SimpleElement(ns, "updated", formatDate(entry.updated))>>
    \o [i \in DOMAIN entry.authors |->
          createPersonElement(ns, entry.authors[i], "author")]
    \o [i \in DOMAIN entry.contributors |->
          createPersonElement(ns, entry.contributors[i], "contributor")]
    \o [i \in DOMAIN entry.categories |->
          createCategoryElement(ns, entry.categories[i])]
    \o (IF IsObject(entry.content)
          THEN <<createContentElement(ns, entry.content)>> ELSE <<>>)
    \o [i \in DOMAIN entry.links |-> createLinkElement(ns, entry.links[i])]
    \o (IF TruthyValue(entry.published)
          THEN <<SimpleElement(ns, "published", formatDate(entry.published))>>
          ELSE <<>>)
    \o (IF IsObject(entry.rights)
          THEN <<createTextConstructElement(ns, entry.rights, "rights")>>
          ELSE <<>>)
    \o (IF Truthy(entry.source)
          THEN <<SimpleElement(ns, "source", entry.source)>> ELSE <<>>)
    \o (IF IsObject(entry.summary)
          THEN <<createTextConstructElement(ns, entry.summary, "summary")>>
          ELSE <<>>))

(***************************************************************************)
(* RawAtomFeed: the entry collection.  The caller's entry objects live in  *)
(* a heap (a sequence of entry records, an object's address is its index); *)
(* an array of entries is a sequence of addresses.                         *)
(***************************************************************************)
Deref(heap, array) == [i \in DOMAIN array |-> heap[array[i]]]

\* the comparator written (a, b) => a.updated.getTime() - b.updated.getTime()
Compare_Ascending(a, b) ==
  IF a.updated.nan \/ b.updated.nan THEN 0
  ELSE IF a.updated.time > b.updated.time THEN 1
  ELSE IF a.updated.time < b.updated.time THEN -1
  ELSE 0

\* the comparator (a, b) => b.updated.getTime() - a.updated.getTime(), as its
\* sign; a NaN result is treated as +0 by Array.prototype.sort
Compare(a, b) ==
  IF a.updated.nan \/ b.updated.nan THEN 0
  ELSE IF b.updated.time > a.updated.time THEN 1
  ELSE IF b.updated.time < a.updated.time THEN -1
  ELSE 0

(***************************************************************************)
(* Array.prototype.sort as V8 runs it on an array of fewer than 64         *)
(* elements: the leading run is found (a descending one is reversed), then *)
(* each later element is inserted by binary search.  With a comparator     *)
(* that is a consistent order this is the stable sort; with one that is    *)
(* not (an invalid date compares NaN, read as +0, with everything) it is   *)
(* what this engine returns.  order is CallCompare(x, y) = comparefn(x, y).*)
(***************************************************************************)
\* CountAndMakeRun: the length of the run that starts the array, idx being
\* the position of the next element to look at
RECURSIVE RunLength(_, _, _, _)
RunLength(heap, array, idx, isDescending) ==
  IF idx > Len(array) THEN idx - 1
  ELSE IF isDescending
            /\ Compare(heap[array[idx]], heap[array[idx - 1]]) >= 0
    THEN idx - 1
  ELSE IF ~isDescending
            /\ Compare(heap[array[idx]], heap[array[idx - 1]]) < 0
    THEN idx - 1
  ELSE RunLength(heap, array, idx + 1, isDescending)

Reverse(array) == [i \in DOMAIN array |-> array[Len(array) + 1 - i]]

\* the array with its first runLength elements reversed
ReverseRange(array, runLength) ==
  Reverse(SubSeq(array, 1, runLength))
  \o SubSeq(array, runLength + 1, Len(array))

\* the binary search of BinaryInsertionSort: the number of elements of
\* array[left + 1 .. right] and before that stay in front of pivot
RECURSIVE InsertionPoint(_, _, _, _, _)
InsertionPoint(heap, array, pivot, left, right) ==
  IF left >= right THEN left
  ELSE IF Compare(heap[pivot],
                  heap[array[left + ((right - left) \div 2) + 1]]) < 0
    THEN InsertionPoint(heap, array, pivot, left,
                        left + ((right - left) \div 2))
    ELSE InsertionPoint(heap, array, pivot,
                        left + ((right - left) \div 2) + 1, right)

\* the array with the element at position start + 1 moved to position
\* left + 1
MoveTo(array, start, left) ==
  SubSeq(array, 1, left) \o <<array[start + 1]>>
  \o SubSeq(array, left + 1, start) \o SubSeq(array, start + 2, Len(array))

\* BinaryInsertionSort: the first start elements are sorted, every later one
\* is inserted among them
RECURSIVE BinaryInsertionSort(_, _, _)
BinaryInsertionSort(heap, array, start) ==
  IF start >= Len(array) THEN array
  ELSE BinaryInsertionSort(
         heap,
         MoveTo(array, start,
                InsertionPoint(heap, array, array[start + 1], 0, start)),
         start + 1)

\* the run made ascending, then the insertion of the elements after it
SortFromRun(heap, array, isDescending, runLength) ==
  BinaryInsertionSort(heap,
                      IF isDescending THEN ReverseRange(array, runLength)
                                      ELSE array,
                      runLength)

SortArray(heap, array) ==
  IF Len(array) < 2 THEN array
  ELSE SortFromRun(heap, array,
                   Compare(heap[array[2]], heap[array[1]]) < 0,
                   RunLength(heap, array, 3,
                             Compare(heap[array[2]], heap[array[1]]) < 0))

\* what the comparator throws while sorting: a TypeError when some updated
\* has no getTime (the comparator runs only for two entries or more, and
\* then on every one of them)
SortError(heap, array) ==
  IF Len(array) >= 2
       /\ \E i \in DOMAIN array :
            \/ ~IsObject(heap[array[i]].updated)
            \/ ~HasDateMethods(heap[array[i]].updated)
    THEN TypeErrorMsg
    ELSE OK

\* getSortedEntries written this.entries.sort(...): the stored array is sorted
getSortedEntries_InPlace(heap, entries, sortEntries) ==
  IF ~sortEntries
    THEN [result |-> entries, stored |-> entries]
    ELSE [result |-> SortArray(heap, entries),
          stored |-> SortArray(heap, entries)]

\* getSortedEntries written this.entries.sort(ascending).reverse()
getSortedEntries_ReverseInPlace(heap, entries, sortEntries) ==
  IF ~sortEntries
    THEN [result |-> entries, stored |-> entries]
    ELSE [result |-> SortArray(heap, Reverse(entries)),
          stored |-> SortArray(heap, Reverse(entries))]

\* getSortedEntries: result is the array it returns, stored is this.entries
\* after the call (the sort works on a copy)
getSortedEntries(heap, entries, sortEntries) ==
  IF ~sortEntries
    THEN [result |-> entries, stored |-> entries]
    ELSE [result |-> SortArray(heap, entries), stored |-> entries]

\* addEntry written push first, validate after
addEntry_PushFirst(heap, entries, entry) ==
  IF validateEntry(heap[entry]) # OK
    THEN [error |-> validateEntry(heap[entry]),
          entries |-> Append(entries, entry)]
    ELSE [error |-> OK, entries |-> Append(entries, entry)]

\* addEntry that keeps ids unique: an entry with a stored id replaces it
addEntry_UniqueIds(heap, entries, entry) ==
  IF validateEntry(heap[entry]) # OK
    THEN [error |-> validateEntry(heap[entry]), entries |-> entries]
  ELSE IF \E i \in DOMAIN entries : heap[entries[i]].id = heap[entry].id
    THEN [error |-> OK,
          entries |-> [i \in DOMAIN entries |->
                         IF heap[entries[i]].id = heap[entry].id
                           THEN entry ELSE entries[i]]]
  ELSE [error |-> OK, entries |-> Append(entries, entry)]

\* this.entries.push(entry), reached only when validateEntry did not throw
PushUnlessThrown(error, entries, entry) ==
  IF error # OK
    THEN [error |-> error, entries |-> entries]
    ELSE [error |-> OK, entries |-> Append(entries, entry)]

addEntry(heap, entries, entry) ==
  PushUnlessThrown(validateEntry(heap[entry]), entries, entry)

\* removeEntry written with findIndex and splice: only the first match goes
removeEntry_FirstOnly(heap, entries, entryId) ==
  IF \E i \in DOMAIN entries : heap[entries[i]].id = entryId
    THEN LET first == CHOOSE i \in DOMAIN entries :
                        /\ heap[entries[i]].id = entryId
                        /\ \A j \in 1..(i - 1) : heap[entries[j]].id # entryId
         IN  [entries |-> SubSeq(entries, 1, first - 1)
                            \o SubSeq(entries, first + 1, Len(entries)),
              result |-> TRUE]
    ELSE [entries |-> entries, result |-> FALSE]

removeEntry(heap, entries, entryId) ==
  LET filtered == SelectSeq(entries, LAMBDA e : heap[e].id # entryId)
  IN  [entries |-> filtered, result |-> Len(filtered) # Len(entries)]

\* getEntries written return this.entries
getEntries_Live(entries) == [frozen |-> FALSE, aliased |-> TRUE, items |-> entries]

\* getEntries returns a new array (not this.entries itself), frozen
getEntries(entries) == [frozen |-> TRUE, aliased |-> FALSE, items |-> entries]

clear(entries) == <<>>

(***************************************************************************)
(* RawAtomFeed.toXml.  The value is [error, xml, stored]: error is OK or   *)
(* what the call throws, xml the tree handed to js2xml (NoObject when the  *)
(* call throws), stored is this.entries after the call.                    *)
(***************************************************************************)
\* toXml that emits the links of the feed before its generator and icon
FeedChildren_LinksFirst(ns, options) ==
  <<SimpleElement(ns, "id", options.id),
    createTextConstructElement(ns, options.title, "title"),
    SimpleElement(ns, "updated", formatDate(options.updated))>>
  \o [i \in DOMAIN options.authors |->
        createPersonElement(ns, options.authors[i], "author")]
  \o [i \in DOMAIN options.contributors |->
        createPersonElement(ns, options.contributors[i], "contributor")]
  \o [i \in DOMAIN options.categories |->
        createCategoryElement(ns, options.categories[i])]
  \o [i \in DOMAIN options.links |-> createLinkElement(ns, options.links[i])]
  \o (IF IsObject(options.generator)
        THEN <<Element(getElementName(ns, "generator"),
                       Attr("version", options.generator.version)
                         \o Attr("uri", options.generator.uri),
                       <<TextNode(options.generator.name)>>)>>
        ELSE <<>>)
  \o (IF Truthy(options.icon)
        THEN <<SimpleElement(ns, "icon", options.icon)>> ELSE <<>>)
  \o (IF Truthy(options.logo)
        THEN <<SimpleElement(ns, "logo", options.logo)>> ELSE <<>>)
  \o (IF IsObject(options.rights)
        THEN <<createTextConstructElement(ns, options.rights, "rights")>>
        ELSE <<>>)
  \o (IF IsObject(options.subtitle)
        THEN <<createTextConstructElement(ns, options.subtitle, "subtitle")>>
        ELSE <<>>)

FeedChildren(ns, options) ==
  <<SimpleElement(ns, "id", options.id),
    createTextConstructElement(ns, options.title, "title"),
    SimpleElement(ns, "updated", formatDate(options.updated))>>
  \o [i \in DOMAIN options.authors |->
        createPersonElement(ns, options.authors[i], "author")]
  \o [i \in DOMAIN options.contributors |->
        createPersonElement(ns, options.contributors[i], "contributor")]
  \o [i \in DOMAIN options.categories |->
        createCategoryElement(ns, options.categories[i])]
  \o (IF IsObject(options.generator)
        THEN <<Element(getElementName(ns, "generator"),
                       Attr("version", options.generator.version)
                         \o Attr("uri", options.generator.uri),
                       <<TextNode(options.generator.name)>>)>>
        ELSE <<>>)
  \o (IF Truthy(options.icon)
        THEN <<SimpleElement(ns, "icon", options.icon)>> ELSE <<>>)
  \o [i \in DOMAIN options.links |-> createLinkElement(ns, options.links[i])]
  \o (IF Truthy(options.logo)
        THEN <<SimpleElement(ns, "logo", options.logo)>> ELSE <<>>)
  \o (IF IsObject(options.rights)
        THEN <<createTextConstructElement(ns, options.rights, "rights")>>
        ELSE <<>>)
  \o (IF IsObject(options.subtitle)
        THEN <<createTextConstructElement(ns, options.subtitle, "subtitle")>>
        ELSE <<>>)

FeedAttributes(ns, options) ==
  (IF ns THEN <<<<"xmlns:atom", "http://www.w3.org/2005/Atom">>>>
         ELSE <<<<"xmlns", "http://www.w3.org/2005/Atom">>>>)
  \o Attr("xml:lang", options.lang) \o Attr("xml:base", options.base)

\* StylesheetInstruction without the default type
StylesheetInstruction_NoDefault(stylesheet) ==
  [type |-> "instruction", name |-> "xml-stylesheet",
   instruction |->
     "type=\"" \o (IF stylesheet.type = UNDEFINED THEN "undefined"
                                                    ELSE stylesheet.type)
     \o "\" href=\"" \o encodeURI(stylesheet.href) \o "\""]

StylesheetInstruction(stylesheet) ==
  [type |-> "instruction", name |-> "xml-stylesheet",
   instruction |->
     "type=\"" \o (IF Truthy(stylesheet.type) THEN stylesheet.type
                                                ELSE "text/xsl")
     \o "\" href=\"" \o encodeURI(stylesheet.href) \o "\""]

(***************************************************************************)
(* js2xml of xml-js, called with {compact: false, spaces: 2}: the          *)
(* characters it writes for the nodes of the element tree.                 *)
(***************************************************************************)
RECURSIVE Flatten(_)
Flatten(seqs) ==
  IF seqs = <<>> THEN <<>> ELSE Head(seqs) \o Flatten(Tail(seqs))

\* text.replace(/&amp;/g, '&')
RECURSIVE Desanitize(_)
Desanitize(chars) ==
  IF chars = <<>> THEN <<>>
  ELSE IF Len(chars) >= 5 /\ SubSeq(chars, 1, 5) = <<"&", "a", "m", "p", ";">>
    THEN <<"&">> \o Desanitize(SubSeq(chars, 6, Len(chars)))
  ELSE <<Head(chars)>> \o Desanitize(Tail(chars))

\* .replace(/&/g, '&amp;').replace(/</g, '&lt;').replace(/>/g, '&gt;')
SanitizeChar(c) ==
  IF c = "&" THEN <<"&", "a", "m", "p", ";">>
  ELSE IF c = "<" THEN <<"&", "l", "t", ";">>
  ELSE IF c = ">" THEN <<"&", "g", "t", ";">>
  ELSE <<c>>

Sanitize(chars) == Flatten([i \in DOMAIN chars |-> SanitizeChar(chars[i])])

writeText(text) == Sanitize(Desanitize(Chars(text)))

\* attr.replace(/"/g, '&quot;')
QuoteChar(c) == IF c = "\"" THEN <<"&", "q", "u", "o", "t", ";">> ELSE <<c>>

writeAttribute(key, chars) ==
  <<" ">> \o Chars(key) \o <<"=", "\"">>
  \o Flatten([i \in DOMAIN chars |-> QuoteChar(chars[i])]) \o <<"\"">>

writeAttributes(attributes) ==
  Flatten([i \in DOMAIN attributes |->
             writeAttribute(attributes[i][1], Chars(attributes[i][2]))])

writeIndentation(depth, firstLine) ==
  (IF firstLine THEN <<>> ELSE <<"\n">>) \o [i \in 1..(2 * depth) |-> " "]

\* an element with a child that is not a text node is closed on a new line
hasContent(element) ==
  \E i \in DOMAIN element.elements : element.elements[i].type # "text"

RECURSIVE writeElements(_, _, _)
writeElement(element, depth) ==
  <<"<">> \o Chars(element.name) \o writeAttributes(element.attributes)
  \o (IF element.elements = <<>> THEN <<"/", ">">>
      ELSE <<">">> \o writeElements(element.elements, depth + 1, FALSE)
           \o (IF hasContent(element) THEN writeIndentation(depth, FALSE)
                                       ELSE <<>>)
           \o <<"<", "/">> \o Chars(element.name) \o <<">">>)

writeElements(elements, depth, firstLine) ==
  IF elements = <<>> THEN <<>>
  ELSE (IF Head(elements).type = "text"
          THEN writeText(Head(elements).text)
          ELSE writeIndentation(depth, firstLine)
                 \o writeElement(Head(elements), depth))
       \o writeElements(Tail(elements), depth, FALSE)

toXml(options, heap, entries, useNamespacePrefix, sortEntries, stylesheet) ==
  LET sorted == getSortedEntries(heap, entries, sortEntries)
      entriesToAdd == IF sortEntries THEN sorted.result ELSE entries
      stored == IF sortEntries THEN sorted.stored ELSE entries
      entryErrors == [i \in DOMAIN entriesToAdd |->
                        createEntryElementError(heap[entriesToAdd[i]])]
  IN  IF ~IsObject(options.title)
        THEN [error |-> TypeErrorMsg, xml |-> NoObject, stored |-> entries]
      ELSE IF formatDateError(options.updated) # OK
        THEN [error |-> formatDateError(options.updated), xml |-> NoObject,
              stored |-> entries]
      ELSE IF createLinkElementsError(options.links) # OK
        THEN [error |-> URIErrorMsg, xml |-> NoObject, stored |-> entries]
      ELSE IF sortEntries /\ SortError(heap, entries) # OK
        THEN [error |-> SortError(heap, entries), xml |-> NoObject,
              stored |-> entries]
      ELSE IF FirstError(entryErrors) # OK
        THEN [error |-> FirstError(entryErrors), xml |-> NoObject,
              stored |-> stored]
      ELSE IF IsObject(stylesheet) /\ encodeURIError(stylesheet.href) # OK
        THEN [error |-> URIErrorMsg, xml |-> NoObject, stored |-> stored]
      ELSE
        [error |-> OK,
         xml |->
           [declaration |-> [version |-> "1.0", encoding |-> "utf-8"],
            elements |->
              (IF IsObject(stylesheet)
                 THEN <<StylesheetInstruction(stylesheet)>> ELSE <<>>)
              \o <<Element(getElementName(useNamespacePrefix, "feed"),
                           FeedAttributes(useNamespacePrefix, options),
                           FeedChildren(useNamespacePrefix, options)
                             \o [i \in DOMAIN entriesToAdd |->
                                   createEntryElement(useNamespacePrefix,
                                                      heap[entriesToAdd[i]])])>>],
         stored |-> stored]

\* the constructor: the four language tag checks, then validateFeedOptions
constructorError(options) ==
  IF Truthy(options.lang) /\ ~isValidLanguageTag(Chars(options.lang))
    THEN "Invalid language tag in feed"
  ELSE IF ~IsObject(options.title) THEN TypeErrorMsg
  ELSE IF Truthy(options.title.lang)
            /\ ~isValidLanguageTag(Chars(options.title.lang))
    THEN "Invalid language tag in title"
  ELSE IF IsObject(options.subtitle) /\ Truthy(options.subtitle.lang)
            /\ ~isValidLanguageTag(Chars(options.subtitle.lang))
    THEN "Invalid language tag in subtitle"
  ELSE IF IsObject(options.rights) /\ Truthy(options.rights.lang)
            /\ ~isValidLanguageTag(Chars(options.rights.lang))
    THEN "Invalid language tag in rights"
  ELSE validateFeedOptions(options)

\* getLinks returns this.options.links itself, an array that is not frozen,
\* or a new empty array when the options have no links
getLinks(options) ==
  [frozen |-> FALSE, aliased |-> options.hasLinks, items |-> options.links]

\* setLinks that assigns this.options.links = [] first and pushes each link
\* onto it as soon as it is validated
setLinks_Partial(options, links) ==
  IF \E i \in DOMAIN links : validateLink(links[i]) # OK
    THEN [error |-> FirstError([i \in DOMAIN links |-> validateLink(links[i])]),
          options |->
            [options EXCEPT !.hasLinks = TRUE, !.links =
               SubSeq(links, 1,
                      (CHOOSE i \in DOMAIN links :
                         /\ validateLink(links[i]) # OK
                         /\ \A j \in 1..(i - 1) : validateLink(links[j]) = OK)
                      - 1)]]
    ELSE [error |-> OK,
          options |-> [options EXCEPT !.hasLinks = TRUE, !.links = links]]

\* setLinks: every link validated in order, then the list replaced
setLinks(options, links) ==
  LET error == FirstError([i \in DOMAIN links |-> validateLink(links[i])])
  IN  IF error # OK
        THEN [error |-> error, options |-> options]
        ELSE [error |-> OK,
              options |-> [options EXCEPT !.hasLinks = TRUE, !.links = links]]

(***************************************************************************)
(* Inputs: the objects the caller builds and passes in.                    *)
(***************************************************************************)
Text(content) ==
  [content |-> content, type |-> UNDEFINED, lang |-> UNDEFINED,
   base |-> UNDEFINED]

Content(content, src, type) ==
  [content |-> content, type |-> type, src |-> src, lang |-> UNDEFINED,
   base |-> UNDEFINED]

\* the object literal {} given as a content construct
EmptyContent == Content(UNDEFINED, UNDEFINED, UNDEFINED)

Link(href, rel) ==
  [href |-> href, rel |-> rel, type |-> UNDEFINED, hreflang |-> UNDEFINED,
   title |-> UNDEFINED, length |-> UNDEFINED]

Person(name, email) == [name |-> name, email |-> email, uri |-> UNDEFINED]

Category(term, scheme) == [term |-> term, scheme |-> scheme, label |-> UNDEFINED]

Entry(id, title, updated, content) ==
  [id |-> id, title |-> title, updated |-> updated, authors |-> <<>>,
   contributors |-> <<>>, categories |-> <<>>, content |-> content,
   links |-> <<>>, published |-> NoObject, rights |-> NoObject,
   source |-> UNDEFINED, summary |-> NoObject]

\* an options object.  hasLinks tells whether it has a links property that
\* holds an array; links is that array, and empty when there is none.  With
\* no links given the object is built without the property.
FeedOptions(id, title, updated, lang, links) ==
  [id |-> id, title |-> title, updated |-> updated, authors |-> <<>>,
   contributors |-> <<>>, categories |-> <<>>, generator |-> NoObject,
   icon |-> UNDEFINED, hasLinks |-> links # <<>>, links |-> links,
   logo |-> UNDEFINED, rights |-> NoObject, subtitle |-> NoObject,
   lang |-> lang, base |-> UNDEFINED]

\* the subtags the caller writes language tags with: one subtag of each
\* shape the grammar tells apart, an empty one, and one that holds U+212A
SubtagPool ==
  {<<>>, <<"x">>, <<"a">>, <<"U", "S">>, <<"e", "n", "g">>, <<"1", "2", "3">>,
   <<"H", "a", "n", "s">>, <<"1", "a", "b", "c">>,
   <<"a", "b", "c", "d", "e">>, <<KelvinSign, "a">>}

\* subtags.join("-")
RECURSIVE JoinSubtags(_)
JoinSubtags(subtags) ==
  IF Len(subtags) = 0 THEN <<>>
  ELSE IF Len(subtags) = 1 THEN subtags[1]
  ELSE subtags[1] \o <<"-">> \o JoinSubtags(Tail(subtags))

\* 2024-01-01 and 2024-01-02, in days since the epoch
Day1 == DateOf(19723)

Day2 == DateOf(19724)

\* 10000-01-01, which toISOString writes with a sign and six digits
FarDate == DateOf(2932897)

\* the entry objects of the caller; objects 1..NumValid pass validateEntry
EntryPool ==
  <<Entry("a", Text("Title"), Day1, NoObject),
    Entry("b", Text("Title"), Day2, Content("Hello", UNDEFINED, "text")),
    Entry("b", Text("Title"), Day1, Content("", "http://a", "text/html")),
    Entry("a", Text("Title"), Day2, NoObject),
    Entry("", Text("Title"), Day1, NoObject),
    Entry("a", NoObject, Day1, NoObject),
    Entry("a", Text("Title"), NoObject, NoObject),
    Entry("a", Text("Title"), NotADate, NoObject),
    Entry("a", Text("Title"), InvalidDate, NoObject),
    Entry("a", Text("Title"), Day1, Content("Hello", "http://a", UNDEFINED)),
    Entry("a", Text("Title"), Day1, EmptyContent),
    Entry("b", Text("Title"), Day2, Content("", "", "text"))>>

Ids == {"a", "b"}

\* the options objects given to the constructor
OptionPool ==
  <<FeedOptions("urn:x", Text("Title"), Day1, UNDEFINED, <<>>),
    FeedOptions("urn:x", Text("Title"), Day2, "en",
                <<Link("http://a", "alternate")>>),
    FeedOptions("", Text("Title"), Day1, UNDEFINED, <<>>),
    FeedOptions("urn:x", NoObject, Day1, UNDEFINED, <<>>),
    FeedOptions("urn:x", Text("Title"), NoObject, UNDEFINED, <<>>),
    FeedOptions("", Text("Title"), Day1, "e", <<>>),
    FeedOptions("", [Text("Title") EXCEPT !.lang = "e"], Day1, UNDEFINED, <<>>),
    FeedOptions("urn:x", Text("Title"), NoObject, "e", <<>>),
    FeedOptions("", Text("Title"), Day1, UNDEFINED, <<Link("bad", UNDEFINED)>>),
    FeedOptions("urn:x", Text("Title"), NoObject, UNDEFINED,
                <<Link("bad", UNDEFINED)>>),
    FeedOptions("urn:x", Text("Title"), Day1, "e", <<>>),
    FeedOptions("urn:x", Text("Title"), InvalidDate, UNDEFINED, <<>>),
    FeedOptions("urn:x", Text("Title"), NotADate, UNDEFINED, <<>>),
    FeedOptions("urn:x", Text("Title"), DuckDate, UNDEFINED, <<>>)>>

StylesheetPool == {NoObject, [href |-> "http://a/b c", type |-> UNDEFINED]}

XhtmlText ==
  [content |-> "<div xmlns=\"http://www.w3.org/1999/xhtml\">x</div>",
   type |-> "xhtml", lang |-> "en", base |-> UNDEFINED]

\* valid options objects: each optional field of the feed present or absent
RichOptions ==
  {o \in
  [id : {"urn:x"},
   title : {Text("Title")},
   updated : {Day1},
   authors : {<<>>, <<Person("Ann", "a@b.c"), Person("Bob", UNDEFINED)>>},
   contributors : {<<>>, <<Person("Cy", UNDEFINED)>>},
   categories : {<<>>, <<Category("t", "http://a")>>},
   generator : {NoObject, [name |-> "gen", version |-> "1", uri |-> UNDEFINED]},
   icon : {UNDEFINED, "http://a"},
   hasLinks : BOOLEAN,
   links : {<<>>, <<Link("http://a", "alternate"), Link("http://a/b c", "self")>>},
   logo : {UNDEFINED, "http://b"},
   rights : {NoObject, XhtmlText},
   subtitle : {NoObject, [Text("Hello") EXCEPT !.type = "html"]},
   lang : {UNDEFINED},
   base : {UNDEFINED}] :
   o.hasLinks = (o.links # <<>>)}

\* the options object of RichOptions with every optional field present
FullOptions ==
  [id |-> "urn:x", title |-> Text("Title"), updated |-> Day1,
   authors |-> <<Person("Ann", "a@b.c"), Person("Bob", UNDEFINED)>>,
   contributors |-> <<Person("Cy", UNDEFINED)>>,
   categories |-> <<Category("t", "http://a")>>,
   generator |-> [name |-> "gen", version |-> "1", uri |-> UNDEFINED],
   icon |-> "http://a", hasLinks |-> TRUE,
   links |-> <<Link("http://a", "alternate"), Link("http://a/b c", "self")>>,
   logo |-> "http://b", rights |-> XhtmlText,
   subtitle |-> [Text("Hello") EXCEPT !.type = "html"],
   lang |-> UNDEFINED, base |-> UNDEFINED]

\* the stylesheet arguments of the constructor of a rendered feed
DocumentStylesheets ==
  StylesheetPool \cup {[href |-> "http://a", type |-> "text/css"]}

\* the link arrays given to setLinks
LinkListPool ==
  <<<<>>,
    <<Link("http://a", "alternate")>>,
    <<Link("http://a", "alternate"), Link("http://b", "self")>>,
    <<Link("http://b", "self"), Link("http://a", "alternate")>>,
    <<Link("http://a", "alternate"), Link("bad", UNDEFINED)>>,
    <<Link("", "self"), Link("http://a", "alternate")>>,
    <<Link("http://b", "self"),
      [Link("http://a", "alternate") EXCEPT !.hreflang = "e"],
      Link("bad", UNDEFINED)>>>>

(***************************************************************************)
(* BlogFeed.ts: the adapter that owns a RawAtomFeed.  Its options and      *)
(* posts carry plain strings; lists are given as arrays.  now is the value *)
(* of new Date() at the call.                                              *)
(***************************************************************************)
convertPerson(person) ==
  [name |-> person.name, email |-> person.email, uri |-> person.website]

convertPersonArray(author, authors) ==
  [i \in DOMAIN ((IF IsObject(author) THEN <<author>> ELSE <<>>) \o authors) |->
     convertPerson(((IF IsObject(author) THEN <<author>> ELSE <<>>)
                    \o authors)[i])]

convertTextConstruct(text) ==
  [content |-> text,
   type |-> IF \E i \in DOMAIN Chars(text) : Chars(text)[i] = "<"
              THEN "html" ELSE "text",
   lang |-> UNDEFINED, base |-> UNDEFINED]

PaginationLink(href, rel) == IF Truthy(href) THEN <<Link(href, rel)>> ELSE <<>>

convertLinks(standardLinks, pagination) ==
  [i \in DOMAIN standardLinks |-> Link(standardLinks[i], "alternate")]
  \o (IF IsObject(pagination)
        THEN PaginationLink(pagination.first, "first")
             \o PaginationLink(pagination.last, "last")
             \o PaginationLink(pagination.next, "next")
             \o PaginationLink(pagination.previous, "previous")
             \o PaginationLink(pagination.current, "self")
        ELSE <<>>)

convertCategories(categories) ==
  [i \in DOMAIN categories |-> Category(categories[i], UNDEFINED)]

convertFeedOptions(o, now) ==
  [id |-> o.id,
   title |-> convertTextConstruct(o.title),
   subtitle |-> IF Truthy(o.subtitle) THEN convertTextConstruct(o.subtitle)
                ELSE IF Truthy(o.description)
                  THEN convertTextConstruct(o.description)
                ELSE NoObject,
   authors |-> convertPersonArray(o.author, o.authors),
   contributors |-> convertPersonArray(NoObject, o.contributors),
   hasLinks |-> TRUE,
   links |-> convertLinks(o.links, o.pagination),
   lang |-> o.language,
   updated |-> IF TruthyValue(o.updated) THEN o.updated ELSE now,
   icon |-> o.icon,
   logo |-> o.logo,
   rights |-> IF Truthy(o.rights) THEN convertTextConstruct(o.rights)
                                  ELSE NoObject,
   categories |-> <<>>, generator |-> NoObject, base |-> UNDEFINED]

convertContent(content, contentType) ==
  Content(content, UNDEFINED,
          IF contentType = UNDEFINED THEN "text" ELSE contentType)

\* post.updated || post.published || new Date()
PostUpdated(post, now) ==
  IF TruthyValue(post.updated) THEN post.updated
  ELSE IF TruthyValue(post.published) THEN post.published
  ELSE now

\* convertBlogPost whose updated is the published date before the post's own
convertBlogPost_PublishedFirst(post, now) ==
  [id |-> post.id,
   title |-> convertTextConstruct(post.title),
   content |-> convertContent(post.content, post.contentType),
   summary |-> IF Truthy(post.summary) THEN convertTextConstruct(post.summary)
                                       ELSE NoObject,
   authors |-> convertPersonArray(post.author, post.authors),
   contributors |-> convertPersonArray(NoObject, post.contributors),
   published |-> post.published,
   updated |-> PostUpdated([post EXCEPT !.updated = post.published,
                                        !.published = post.updated], now),
   links |-> convertLinks(post.links, NoObject),
   categories |-> convertCategories(post.categories),
   rights |-> IF Truthy(post.rights) THEN convertTextConstruct(post.rights)
                                     ELSE NoObject,
   source |-> UNDEFINED]

convertBlogPost(post, now) ==
  [id |-> post.id,
   title |-> convertTextConstruct(post.title),
   content |-> convertContent(post.content, post.contentType),
   summary |-> IF Truthy(post.summary) THEN convertTextConstruct(post.summary)
                                       ELSE NoObject,
   authors |-> convertPersonArray(post.author, post.authors),
   contributors |-> convertPersonArray(NoObject, post.contributors),
   published |-> post.published,
   updated |-> PostUpdated(post, now),
   links |-> convertLinks(post.links, NoObject),
   categories |-> convertCategories(post.categories),
   rights |-> IF Truthy(post.rights) THEN convertTextConstruct(post.rights)
                                     ELSE NoObject,
   source |-> UNDEFINED]

PaginationRels == {"first", "last", "next", "previous", "self"}

\* setPagination that keeps the pagination links the feed already has
setPagination_KeepOld(options, pagination) ==
  setLinks(options,
           getLinks(options).items \o convertLinks(<<>>, pagination))

\* setPagination: the links that are not pagination links, then the new ones
setPagination(options, pagination) ==
  setLinks(options,
           SelectSeq(getLinks(options).items,
                     LAMBDA link : link.rel \notin PaginationRels)
             \o convertLinks(<<>>, pagination))

\* the href of the last link of links whose rel is rel, undefined when none
LastHref(links, rel) ==
  IF \E i \in DOMAIN links : links[i].rel = rel
    THEN links[CHOOSE i \in DOMAIN links :
                 /\ links[i].rel = rel
                 /\ \A j \in (i + 1)..Len(links) : links[j].rel # rel].href
    ELSE UNDEFINED

getPagination(options) ==
  [first |-> LastHref(getLinks(options).items, "first"),
   last |-> LastHref(getLinks(options).items, "last"),
   next |-> LastHref(getLinks(options).items, "next"),
   previous |-> LastHref(getLinks(options).items, "previous"),
   current |-> LastHref(getLinks(options).items, "self")]

\* the options and posts given to a BlogFeed
BlogOptions(id, title, updated, links, pagination) ==
  [id |-> id, title |-> title, subtitle |-> UNDEFINED,
   description |-> UNDEFINED, author |-> NoObject, authors |-> <<>>,
   contributors |-> <<>>, links |-> links, pagination |-> pagination,
   language |-> UNDEFINED, updated |-> updated, icon |-> UNDEFINED,
   logo |-> UNDEFINED, rights |-> UNDEFINED, stylesheet |-> UNDEFINED]

Pagination(first, next, current) ==
  [first |-> first, last |-> UNDEFINED, next |-> next,
   previous |-> UNDEFINED, current |-> current]

BlogOptionPool ==
  <<BlogOptions("urn:x", "Title", Day1, <<>>, NoObject),
    [BlogOptions("urn:x", "<em>x</em>", NoObject, <<"http://a", "http://b">>,
                 Pagination("http://a", UNDEFINED, "http://b"))
       EXCEPT !.description = "Hello", !.stylesheet = "http://a",
              !.author = [name |-> "Ann", email |-> UNDEFINED,
                          website |-> "http://a"]],
    BlogOptions("", "Title", Day1, <<>>, NoObject)>>

BlogPost(id, title, updated, published) ==
  [id |-> id, title |-> title, content |-> "Hello", contentType |-> UNDEFINED,
   summary |-> UNDEFINED, author |-> NoObject, authors |-> <<>>,
   contributors |-> <<>>, published |-> published, updated |-> updated,
   links |-> <<>>, categories |-> <<>>, rights |-> UNDEFINED]

PostPool ==
  <<BlogPost("a", "Title", Day1, NoObject),
    BlogPost("b", "Title", NoObject, Day2),
    [BlogPost("b", "Title", Day1, Day2)
       EXCEPT !.contentType = "html", !.summary = "Hello",
              !.categories = <<"t">>, !.links = <<"http://a">>],
    BlogPost("a", "Title", NoObject, NoObject),
    BlogPost("a", "", Day1, NoObject)>>

\* entry objects that are passed to addEntry as they are: plain ones, one
\* with a remote content and a published value that only has the methods of
\* a date, one with xhtml constructs, a falsy published value and a link
\* href that needs escaping, one whose link href holds an unpaired
\* surrogate, and one addEntry rejects
ApiEntryPool ==
  <<Entry("a", Text("Title"), Day1, NoObject),
    Entry("b", Text("Title"), Day2, Content("Hello", UNDEFINED, "text")),
    [Entry("b", Text("Title"), Day1, Content("", "http://a", "text/html"))
       EXCEPT !.published = DuckDate],
    [Entry("a", XhtmlText, Day2,
           Content("<div xmlns=\"http://www.w3.org/1999/xhtml\">x</div>",
                   UNDEFINED, "xhtml"))
       EXCEPT !.published = FalsyValue,
              !.links = <<Link("http://a/b c", "self")>>,
              !.authors = <<Person("Ann", UNDEFINED)>>],
    [Entry("a", Text("Title"), Day1, NoObject)
       EXCEPT !.links = <<Link("http://a/\\uD800", "alternate")>>],
    Entry("a", Text("Title"), InvalidDate, NoObject)>>

\* hrefs: one of URI-safe characters only, one with a space, and one whose
\* space is already percent-encoded
HrefPool == {"http://a", "http://a/b c", "http://a/b%20c"}

HrefOptionPool ==
  <<FeedOptions("urn:x", Text("Title"), Day1, UNDEFINED,
                <<Link("http://a/b%20c", "alternate")>>),
    FeedOptions("urn:x", Text("Title"), Day1, UNDEFINED,
                <<Link("http://a/b c", "alternate"), Link("http://a", "self")>>),
    FeedOptions("urn:x", Text("Title"), Day1, UNDEFINED,
                <<Link("http://a", "alternate"), Link("http://a/b%20c", "self"),
                  Link("http://a/b c", "related")>>)>>

\* the types a content construct is given
ContentTypes == {UNDEFINED, "text", "html", "xhtml", "base64", "text/html"}

\* content constructs: a remote reference of each type, with the content
\* field absent and empty, and inline ones
ContentPool ==
  {Content(content, "http://a", type) :
     content \in {UNDEFINED, ""}, type \in ContentTypes}
  \cup {Content("Hello", UNDEFINED, "text"),
        Content("<div xmlns=\"http://www.w3.org/1999/xhtml\">x</div>",
                UNDEFINED, "xhtml"),
        Content("Hello", "http://a", "text"),
        Content("", "bad", "text")}

\* the pagination objects given to setPagination: some fields, others, an
\* href that is no IRI, an empty href, all five fields, and none
PaginationPool ==
  <<Pagination("http://a", UNDEFINED, "http://b"),
    Pagination(UNDEFINED, "http://b", UNDEFINED),
    Pagination("http://b", "bad", UNDEFINED),
    Pagination("", "http://a", UNDEFINED),
    [Pagination("http://a", "http://b", "http://a")
       EXCEPT !.last = "http://b", !.previous = "http://a"],
    Pagination(UNDEFINED, UNDEFINED, UNDEFINED)>>

\* the values new Date() takes
NowDates == {Day1, Day2}

(***************************************************************************)
(* The state: one RawAtomFeed and what its caller holds.                   *)
(***************************************************************************)
VARIABLES
  constructed,         \* whether the constructor has returned a feed
  options,             \* this.options
  useNamespacePrefix,  \* this.useNamespacePrefix
  sortEntries,         \* this.sortEntries
  stylesheet,          \* this.stylesheet
  heap,                \* the caller's entry objects, by address
  entries,             \* this.entries: addresses, in array order
  snapshot,            \* the array the last getEntries() returned
  last,                \* the last call: [op, obj, id, result]
  lastXml,             \* what the last call returned when it was toXml()
  reference,           \* the reference list of entry values
  mutations,           \* how many times the caller wrote to an entry object
  tag,                 \* the subtags of the language tag the caller writes
  blog                 \* whether the feed is the one a BlogFeed owns

vars ==
  <<constructed, options, useNamespacePrefix, sortEntries, stylesheet, heap,
    entries, snapshot, last, lastXml, reference, mutations, tag, blog>>

feedVars == <<constructed, options, useNamespacePrefix, sortEntries, stylesheet>>

Call(op, obj, id, result) == [op |-> op, obj |-> obj, id |-> id, result |-> result]

BoolText(b) == IF b THEN "true" ELSE "false"

\* the reference list of the entry collection: a plain list of entry values
RefAdd(list, entry) == IF validateEntry(entry) = OK THEN Append(list, entry) ELSE list

RefRemove(list, id) == SelectSeq(list, LAMBDA e : e.id # id)

\* an array that shares its identity with this.entries shows the same items
Alias(array, items) ==
  IF IsObject(array) /\ array.aliased THEN [array EXCEPT !.items = items] ELSE array

\* this.entries is assigned a new array: an earlier alias keeps the old one
Unalias(array) ==
  IF IsObject(array) THEN [array EXCEPT !.aliased = FALSE] ELSE array

InitFeed(k, ns, sort, ss) ==
  /\ constructed = TRUE
  /\ options = OptionPool[k]
  /\ useNamespacePrefix = ns
  /\ sortEntries = sort
  /\ stylesheet = ss

InitRest ==
  /\ heap = EntryPool
  /\ entries = <<>>
  /\ snapshot = NoObject
  /\ last = Call("new", 0, "", OK)
  /\ lastXml = NoObject
  /\ reference = <<>>
  /\ mutations = 0
  /\ tag = <<>>
  /\ blog = FALSE

\* new RawAtomFeed(pool[k], ns, sort, ss)
ConstructFrom(pool, k, ns, sort, ss) ==
  /\ ~constructed
  /\ \E error \in {constructorError(pool[k])} :
       /\ last' = Call("new", k, "", error)
       /\ IF error = OK
            THEN /\ constructed' = TRUE
                 /\ options' = pool[k]
                 /\ useNamespacePrefix' = ns
                 /\ sortEntries' = sort
                 /\ stylesheet' = ss
            ELSE UNCHANGED feedVars
  /\ UNCHANGED <<heap, entries, snapshot, lastXml, reference, mutations, tag, blog>>

\* new RawAtomFeed(OptionPool[k], ns, sort, ss)
Construct(k, ns, sort, ss) == ConstructFrom(OptionPool, k, ns, sort, ss)

\* feed.addEntry(e) for the caller's object e at address k
AddEntry(k) ==
  /\ constructed
  /\ Len(entries) < MaxEntries
  /\ \E r \in {addEntry(heap, entries, k)} :
       /\ entries' = r.entries
       /\ snapshot' = Alias(snapshot, r.entries)
       /\ last' = Call("addEntry", k, "", r.error)
  /\ reference' = RefAdd(reference, heap[k])
  /\ lastXml' = NoObject
  /\ UNCHANGED <<feedVars, heap, mutations, tag, blog>>

\* feed.removeEntry(id)
RemoveEntry(id) ==
  /\ constructed
  /\ \E r \in {removeEntry(heap, entries, id)} :
       /\ entries' = r.entries
       /\ last' = Call("removeEntry", 0, id, BoolText(r.result))
  /\ snapshot' = Unalias(snapshot)
  /\ reference' = RefRemove(reference, id)
  /\ lastXml' = NoObject
  /\ UNCHANGED <<feedVars, heap, mutations, tag, blog>>

\* feed.clear()
Clear ==
  /\ constructed
  /\ entries' = clear(entries)
  /\ snapshot' = Unalias(snapshot)
  /\ last' = Call("clear", 0, "", OK)
  /\ reference' = <<>>
  /\ lastXml' = NoObject
  /\ UNCHANGED <<feedVars, heap, mutations, tag, blog>>

\* feed.toXml()
ToXml ==
  /\ constructed
  /\ \E r \in {toXml(options, heap, entries, useNamespacePrefix, sortEntries,
                     stylesheet)} :
       /\ entries' = r.stored
       /\ snapshot' = Alias(snapshot, r.stored)
       /\ lastXml' = r.xml
       /\ last' = Call("toXml", 0, "", r.error)
  /\ UNCHANGED <<feedVars, heap, reference, mutations, tag, blog>>

\* what push, pop and an index assignment do to an array, as its caller sees
\* it: a frozen array throws a TypeError (the module is strict code) and
\* stays as it was
writeArray(array, op, k) ==
  IF array.frozen THEN [error |-> TypeErrorMsg, items |-> array.items]
  ELSE IF op = "push" THEN [error |-> OK, items |-> Append(array.items, k)]
  ELSE IF op = "pop"
    THEN [error |-> OK,
          items |-> SubSeq(array.items, 1, Len(array.items) - 1)]
  ELSE [error |-> OK,
        items |-> IF array.items = <<>> THEN <<k>>
                  ELSE [array.items EXCEPT ![1] = k]]

\* const list = feed.getEntries()
GetEntries ==
  /\ constructed
  /\ snapshot' = getEntries(entries)
  /\ last' = Call("getEntries", 0, "", OK)
  /\ lastXml' = NoObject
  /\ UNCHANGED <<feedVars, heap, entries, reference, mutations, tag, blog>>

\* list.push(e), list.pop() or list[0] = e on the array getEntries() returned
WriteSnapshot(op, k) ==
  /\ IsObject(snapshot)
  /\ snapshot.frozen \/ Len(snapshot.items) < MaxEntries
  /\ \E r \in {writeArray(snapshot, op, k)} :
       /\ snapshot' = [snapshot EXCEPT !.items = r.items]
       /\ entries' = IF snapshot.aliased THEN r.items ELSE entries
       /\ last' = Call(op, k, "", r.error)
  /\ lastXml' = NoObject
  /\ UNCHANGED <<feedVars, heap, reference, mutations, tag, blog>>

\* the caller assigns e.id = id or e.updated = date on its own object e
MutateEntry(k, field, id, date) ==
  /\ mutations < MaxMutations
  /\ heap' = IF field = "id" THEN [heap EXCEPT ![k].id = id]
                             ELSE [heap EXCEPT ![k].updated = date]
  /\ heap' # heap
  /\ mutations' = mutations + 1
  /\ last' = Call("mutate", k, "", OK)
  /\ lastXml' = NoObject
  /\ UNCHANGED <<feedVars, entries, snapshot, reference, tag, blog>>

\* the same assignment on list[i], an entry object read from getEntries()
MutateSnapshotEntry(i, field, id, date) ==
  /\ IsObject(snapshot)
  /\ i \in DOMAIN snapshot.items
  /\ MutateEntry(snapshot.items[i], field, id, date)

\* feed.setLinks(LinkListPool[k])
SetLinks(k) ==
  /\ constructed
  /\ \E r \in {setLinks(options, LinkListPool[k])} :
       /\ options' = r.options
       /\ last' = Call("setLinks", k, "", r.error)
  /\ lastXml' = NoObject
  /\ UNCHANGED <<useNamespacePrefix, sortEntries, stylesheet, constructed,
                 heap, entries, snapshot, reference, mutations, tag, blog>>

\* feed.getLinks().push(link), .pop() or [0] = link
WriteLinks(op, link) ==
  /\ constructed
  /\ Len(options.links) < MaxLinks
  /\ \E list \in {getLinks(options)} : \E r \in {writeArray(list, op, link)} :
       /\ options' = IF list.aliased THEN [options EXCEPT !.links = r.items]
                                      ELSE options
       /\ last' = Call(op, 0, "", r.error)
  /\ lastXml' = NoObject
  /\ UNCHANGED <<useNamespacePrefix, sortEntries, stylesheet, constructed,
                 heap, entries, snapshot, reference, mutations, tag, blog>>

\* the caller assigns e.updated = date or e.published = date on an entry
\* object e it may have passed in
MutateDate(k, field, date) ==
  /\ mutations < MaxRenderMutations
  /\ heap' = [heap EXCEPT ![k][field] = date]
  /\ heap' # heap
  /\ mutations' = mutations + 1
  /\ last' = Call("mutate", k, field, OK)
  /\ lastXml' = NoObject
  /\ UNCHANGED <<feedVars, entries, snapshot, reference, tag, blog>>

\* the caller assigns options.updated = date on the options object it passed
\* to the constructor, which is this.options
MutateFeedDate(date) ==
  /\ constructed
  /\ mutations < MaxRenderMutations
  /\ options' = [options EXCEPT !.updated = date]
  /\ options' # options
  /\ mutations' = mutations + 1
  /\ last' = Call("mutate", 0, "updated", OK)
  /\ lastXml' = NoObject
  /\ UNCHANGED <<useNamespacePrefix, sortEntries, stylesheet, constructed,
                 heap, entries, snapshot, reference, tag, blog>>

\* the caller deletes e.title on an entry object e it may have passed in
MutateTitle(k) ==
  /\ mutations < MaxRenderMutations
  /\ heap' = [heap EXCEPT ![k].title = NoObject]
  /\ heap' # heap
  /\ mutations' = mutations + 1
  /\ last' = Call("mutate", k, "title", OK)
  /\ lastXml' = NoObject
  /\ UNCHANGED <<feedVars, entries, snapshot, reference, tag, blog>>

\* the caller assigns e[field] = value on its own object e, before or after
\* it has passed e to addEntry
BuildEntry(k, field, value) ==
  /\ heap' = [heap EXCEPT ![k][field] = value]
  /\ heap' # heap
  /\ last' = Call("build", k, field, OK)
  /\ lastXml' = NoObject
  /\ UNCHANGED <<feedVars, entries, snapshot, reference, mutations, tag, blog>>

\* the caller writes one more subtag at the end of its tag
WriteSubtag(subtag) ==
  /\ Len(tag) < MaxSubtags
  /\ tag' = Append(tag, subtag)
  /\ last' = Call("write", 0, "", OK)
  /\ UNCHANGED <<feedVars, heap, entries, snapshot, lastXml, reference,
                 mutations, blog>>

\* isValidLanguageTag(tag) on the tag written so far
CheckTag ==
  /\ tag # <<>>
  /\ last' = Call("isValidLanguageTag", 0, "",
                  BoolText(isValidLanguageTag(JoinSubtags(tag))))
  /\ UNCHANGED <<feedVars, heap, entries, snapshot, lastXml, reference,
                 mutations, tag, blog>>

\* new RawAtomFeed(OptionPool[k]): the flags take their default values
ConstructDefault(k) == Construct(k, FALSE, FALSE, NoObject)

\* new BlogFeed(BlogOptionPool[k]) at the moment now
ConstructBlog(k, now) ==
  /\ ~constructed
  /\ \E feedOptions \in {convertFeedOptions(BlogOptionPool[k], now)} :
     \E error \in {constructorError(feedOptions)} :
       /\ last' = Call("newBlog", k, "", error)
       /\ IF error = OK
            THEN /\ constructed' = TRUE
                 /\ options' = feedOptions
                 /\ useNamespacePrefix' = FALSE
                 /\ sortEntries' = TRUE
                 /\ stylesheet' =
                      IF Truthy(BlogOptionPool[k].stylesheet)
                        THEN [href |-> BlogOptionPool[k].stylesheet,
                              type |-> UNDEFINED]
                        ELSE NoObject
                 /\ blog' = TRUE
            ELSE UNCHANGED <<feedVars, blog>>
  /\ UNCHANGED <<heap, entries, snapshot, lastXml, reference, mutations, tag>>

\* blog.addPost(PostPool[k]) at the moment now: the entry it converts the
\* post to is a new object, which stays on the heap when the feed keeps it
AddPost(k, now) ==
  /\ constructed
  /\ blog
  /\ Len(entries) < MaxEntries
  /\ Len(heap) < Len(EntryPool) + MaxEntries
  /\ \E entry \in {convertBlogPost(PostPool[k], now)} :
     \E r \in {addEntry(Append(heap, entry), entries, Len(heap) + 1)} :
       /\ entries' = r.entries
       /\ heap' = IF r.error = OK THEN Append(heap, entry) ELSE heap
       /\ snapshot' = Alias(snapshot, r.entries)
       /\ last' = Call("addPost", k, "", r.error)
       /\ reference' = RefAdd(reference, entry)
  /\ lastXml' = NoObject
  /\ UNCHANGED <<feedVars, mutations, tag, blog>>

\* blog.setPagination(PaginationPool[k])
SetPagination(k) ==
  /\ constructed
  /\ blog
  /\ \E r \in {setPagination(options, PaginationPool[k])} :
       /\ options' = r.options
       /\ last' = Call("setPagination", k, "", r.error)
  /\ lastXml' = NoObject
  /\ UNCHANGED <<useNamespacePrefix, sortEntries, stylesheet, constructed,
                 heap, entries, snapshot, reference, mutations, tag, blog>>

\* blog.getPagination(): the call reads the links and changes nothing
GetPagination ==
  /\ constructed
  /\ blog
  /\ last' = Call("getPagination", 0, getPagination(options).current, OK)
  /\ UNCHANGED <<feedVars, heap, entries, snapshot, lastXml, reference,
                 mutations, tag, blog>>

(***************************************************************************)
(* Specifications.                                                         *)
(***************************************************************************)
\* the entry collection of a constructed feed, used through its methods
Init ==
  /\ InitRest
  /\ \E sort \in BOOLEAN : InitFeed(1, FALSE, sort, NoObject)

Next ==
  \/ \E k \in DOMAIN EntryPool : AddEntry(k)
  \/ \E id \in Ids : RemoveEntry(id)
  \/ Clear
  \/ ToXml

Spec == Init /\ [][Next]_vars

\* the collection and the arrays getEntries() hands out
SnapshotObjects == {1, 2, 5}

InitSnapshot ==
  /\ InitRest
  /\ InitFeed(1, FALSE, FALSE, NoObject)

NextSnapshot ==
  \/ \E k \in SnapshotObjects : AddEntry(k)
  \/ \E id \in Ids : RemoveEntry(id)
  \/ Clear
  \/ GetEntries
  \/ \E op \in {"push", "pop", "assign"}, k \in SnapshotObjects :
       WriteSnapshot(op, k)

SpecSnapshot == InitSnapshot /\ [][NextSnapshot]_vars

\* the collection with a caller that writes to the entry objects it passed in
AliasObjects == {1, 2}

MutatedDates == {Day1, Day2, InvalidDate}

NextAlias ==
  \/ \E k \in AliasObjects : AddEntry(k)
  \/ \E id \in Ids : RemoveEntry(id)
  \/ GetEntries
  \/ \E k \in AliasObjects, field \in {"id", "updated"}, id \in Ids,
        date \in MutatedDates : MutateEntry(k, field, id, date)
  \/ \E i \in 1..MaxEntries, field \in {"id", "updated"}, id \in Ids,
        date \in MutatedDates : MutateSnapshotEntry(i, field, id, date)
  \/ ToXml

SpecAlias == Init /\ [][NextAlias]_vars

\* construction
InitNew ==
  /\ InitRest
  /\ constructed = FALSE
  /\ options = NoObject
  /\ useNamespacePrefix = FALSE
  /\ sortEntries = FALSE
  /\ stylesheet = NoObject

NextNew ==
  \/ \E k \in DOMAIN OptionPool, ns \in BOOLEAN, sort \in BOOLEAN,
        ss \in StylesheetPool : Construct(k, ns, sort, ss)
  \/ \E k \in SnapshotObjects : AddEntry(k)
  \/ ToXml

SpecNew == InitNew /\ [][NextNew]_vars

\* a BlogFeed and a RawAtomFeed built with its defaults, each used through
\* its own methods
NextBlog ==
  \/ \E k \in DOMAIN BlogOptionPool, now \in NowDates : ConstructBlog(k, now)
  \/ ConstructDefault(1)
  \/ \E k \in DOMAIN PostPool, now \in NowDates : AddPost(k, now)
  \/ \E k \in {1, 2, 3} : ~blog /\ AddEntry(k)
  \/ \E id \in Ids : RemoveEntry(id)
  \/ GetEntries
  \/ ToXml

SpecBlog == InitNew /\ [][NextBlog]_vars

\* a BlogFeed whose pagination links are replaced again and again
NextPagination ==
  \/ \E k \in {1, 2}, now \in NowDates : ConstructBlog(k, now)
  \/ \E k \in DOMAIN PaginationPool : SetPagination(k)
  \/ GetPagination
  \/ \E k \in {1, 2} : AddPost(k, Day1)
  \/ ToXml

SpecPagination == InitNew /\ [][NextPagination]_vars

\* feeds whose links and stylesheet have hrefs of each kind
NextHref ==
  \/ \E k \in DOMAIN HrefOptionPool, ns \in BOOLEAN, href \in HrefPool :
       ConstructFrom(HrefOptionPool, k, ns, FALSE,
                     [href |-> href, type |-> UNDEFINED])
  \/ \E k \in DOMAIN HrefOptionPool :
       ConstructFrom(HrefOptionPool, k, FALSE, FALSE, NoObject)
  \/ \E k \in {1, 2} : AddEntry(k)
  \/ Clear
  \/ ToXml

SpecHref == InitNew /\ [][NextHref]_vars

\* a feed that is built and used through its methods only: nothing writes
\* to an object after it was passed in
InitApi ==
  /\ heap = ApiEntryPool
  /\ entries = <<>>
  /\ snapshot = NoObject
  /\ last = Call("new", 0, "", OK)
  /\ lastXml = NoObject
  /\ reference = <<>>
  /\ mutations = 0
  /\ tag = <<>>
  /\ blog = FALSE
  /\ constructed = FALSE
  /\ options = NoObject
  /\ useNamespacePrefix = FALSE
  /\ sortEntries = FALSE
  /\ stylesheet = NoObject

NextApi ==
  \/ \E k \in {1, 2, 3}, sort \in BOOLEAN, ss \in StylesheetPool :
       Construct(k, FALSE, sort, ss)
  \/ \E k \in DOMAIN ApiEntryPool : AddEntry(k)
  \/ \E id \in Ids : RemoveEntry(id)
  \/ Clear
  \/ \E k \in DOMAIN LinkListPool : SetLinks(k)
  \/ ToXml

SpecApi == InitApi /\ [][NextApi]_vars

\* one entry object that its caller builds field by field and passes to
\* addEntry at any moment: every combination of missing required fields and
\* invalid nested constructs
EntryFields ==
  {"id", "title", "updated", "content", "summary", "rights", "authors",
   "contributors", "categories", "links", "published"}

FieldValues(field) ==
  CASE field = "id" -> {"", "a"}
    [] field = "title" -> {NoObject, Text("Title"), Text("")}
    [] field = "updated" -> {NoObject, NotADate, InvalidDate, Day1}
    [] field = "content" -> {NoObject, EmptyContent}
    [] field = "summary" -> {NoObject, Text("")}
    [] field = "rights" -> {NoObject, [Text("Title") EXCEPT !.lang = "e"]}
    [] field = "authors" -> {<<>>, <<Person("", UNDEFINED)>>}
    [] field = "contributors" -> {<<>>, <<Person("Ann", "a@b")>>}
    [] field = "categories" -> {<<>>, <<Category("", UNDEFINED)>>}
    [] field = "links" -> {<<>>, <<Link("bad", UNDEFINED)>>}
    [] field = "published" -> {NoObject, InvalidDate}

InitOneEntry ==
  /\ heap = <<Entry("a", Text("Title"), Day1, NoObject)>>
  /\ entries = <<>>
  /\ snapshot = NoObject
  /\ last = Call("new", 0, "", OK)
  /\ lastXml = NoObject
  /\ reference = <<>>
  /\ mutations = 0
  /\ tag = <<>>
  /\ blog = FALSE

InitEntry ==
  /\ InitFeed(1, FALSE, FALSE, NoObject)
  /\ InitOneEntry

NextEntry ==
  \/ \E field \in EntryFields : \E value \in FieldValues(field) :
       BuildEntry(1, field, value)
  \/ AddEntry(1)

SpecEntry == InitEntry /\ [][NextEntry]_vars

\* one entry object that is given a content construct before it is added
NextContent ==
  \/ \E content \in ContentPool :
       entries = <<>> /\ BuildEntry(1, "content", content)
  \/ AddEntry(1)
  \/ Clear
  \/ ToXml

SpecContent == InitEntry /\ [][NextContent]_vars

\* a feed whose links are replaced between renderings
LinkObjects == {1, 2}

InitLinks ==
  /\ InitRest
  /\ \E k \in {1, 2} : InitFeed(k, FALSE, FALSE, NoObject)

NextLinks ==
  \/ \E k \in DOMAIN LinkListPool : SetLinks(k)
  \/ \E k \in LinkObjects : AddEntry(k)
  \/ Clear
  \/ ToXml

SpecLinks == InitLinks /\ [][NextLinks]_vars

\* a feed whose caller writes to the list getLinks() returns
WrittenLinks == {Link("http://b", "self"), Link("bad", UNDEFINED)}

NextLinkList ==
  \/ \E k \in DOMAIN LinkListPool : SetLinks(k)
  \/ \E op \in {"push", "pop", "assign"}, link \in WrittenLinks :
       WriteLinks(op, link)
  \/ ToXml

SpecLinkList == InitLinks /\ [][NextLinkList]_vars

\* a feed, sorted or not, with or without a link whose href encodeURI
\* refuses, whose caller writes to the options and to the entry objects after
\* the feed has stored them: a date made invalid, replaced by a value that is
\* no Date, or a title deleted
RenderOptions ==
  {FeedOptions("urn:x", Text("Title"), Day1, UNDEFINED, <<>>),
   FeedOptions("urn:x", Text("Title"), Day1, UNDEFINED,
               <<Link("http://a/\\uD800", "alternate")>>)}

RenderDates == {Day1, Day2, InvalidDate, FarDate, NotADate}

InitRender ==
  /\ InitRest
  /\ constructed = TRUE
  /\ options \in {o \in RenderOptions : constructorError(o) = OK}
  /\ useNamespacePrefix = FALSE
  /\ sortEntries \in BOOLEAN
  /\ stylesheet = NoObject

NextRender ==
  \/ \E k \in AliasObjects : AddEntry(k)
  \/ \E k \in AliasObjects, field \in {"updated", "published"},
        date \in RenderDates : MutateDate(k, field, date)
  \/ \E date \in RenderDates : MutateFeedDate(date)
  \/ \E k \in AliasObjects : MutateTitle(k)
  \/ Clear
  \/ ToXml

SpecRender == InitRender /\ [][NextRender]_vars

\* language tags written subtag by subtag and validated
NextTag ==
  \/ \E subtag \in SubtagPool : WriteSubtag(subtag)
  \/ CheckTag

SpecTag == InitSnapshot /\ [][NextTag]_vars

\* feeds constructed from options with every combination of optional
\* fields, with and without prefix and stylesheet, and rendered
InitDocument ==
  /\ InitRest
  /\ \E o \in RichOptions, ns \in BOOLEAN, ss \in DocumentStylesheets :
       /\ constructorError(o) = OK
       /\ constructed = TRUE
       /\ options = o
       /\ useNamespacePrefix = ns
       /\ sortEntries = FALSE
       /\ stylesheet = ss

NextDocument ==
  \/ AddEntry(2)
  \/ Clear
  \/ ToXml

SpecDocument == InitDocument /\ [][NextDocument]_vars

\* feeds of two entry objects with different ids and dates, sorted or not,
\* whose title is plain text or HTML source that holds a character reference
AmpersandOptions ==
  FeedOptions("urn:x", [Text("AT&amp;T") EXCEPT !.type = "html"], Day1,
              UNDEFINED, <<>>)

InitRoundTrip ==
  /\ InitRest
  /\ \E o \in {OptionPool[1], AmpersandOptions}, ns \in BOOLEAN,
        sort \in BOOLEAN :
       /\ constructorError(o) = OK
       /\ constructed = TRUE
       /\ options = o
       /\ useNamespacePrefix = ns
       /\ sortEntries = sort
       /\ stylesheet = NoObject

NextRoundTrip ==
  \/ \E k \in {1, 2} : AddEntry(k)
  \/ Clear
  \/ ToXml

SpecRoundTrip == InitRoundTrip /\ [][NextRoundTrip]_vars

\* a feed constructed with any value of updated, and one entry object whose
\* caller sets updated and published to any value before it adds the object
DateOptions == {1, 5, 12, 13, 14}

DateValues(field) ==
  IF field = "updated"
    THEN {NoObject, NotADate, InvalidDate, DuckDate, Day1}
    ELSE {NoObject, NotADate, InvalidDate, DuckDate, FalsyValue, Day2}

InitDates ==
  /\ InitOneEntry
  /\ constructed = FALSE
  /\ options = NoObject
  /\ useNamespacePrefix = FALSE
  /\ sortEntries = FALSE
  /\ stylesheet = NoObject

NextDates ==
  \/ \E k \in DateOptions : Construct(k, FALSE, FALSE, NoObject)
  \/ /\ entries = <<>>
     /\ \E field \in {"updated", "published"} :
          \E value \in DateValues(field) : BuildEntry(1, field, value)
  \/ AddEntry(1)
  \/ Clear
  \/ ToXml

SpecDates == InitDates /\ [][NextDates]_vars

\* text constructs of every type, a type that is not supported and the empty
\* type included, the xhtml ones with and without the div wrapper: one of
\* them as title, subtitle or rights of the feed and as title, summary and
\* rights of an entry
TextConstructs ==
  <<Text("Hello"),
    [Text("Hello") EXCEPT !.type = ""],
    [Text("Hello") EXCEPT !.type = "text"],
    [Text("Hello") EXCEPT !.type = "html"],
    [Text("Hello") EXCEPT !.type = "markdown"],
    [Text("Hello") EXCEPT !.type = "xhtml"],
    [XhtmlText EXCEPT !.lang = UNDEFINED]>>

FeedTextFields == <<"title", "subtitle", "rights">>

TextOptionPool ==
  [k \in 1..(Len(FeedTextFields) * Len(TextConstructs)) |->
     [OptionPool[1] EXCEPT
        ![FeedTextFields[((k - 1) \div Len(TextConstructs)) + 1]] =
          TextConstructs[((k - 1) % Len(TextConstructs)) + 1]]]

TextValues(field) ==
  {TextConstructs[i] : i \in DOMAIN TextConstructs}
    \cup (IF field = "title" THEN {} ELSE {NoObject})

InitText ==
  /\ InitOneEntry
  /\ constructed = FALSE
  /\ options = NoObject
  /\ useNamespacePrefix = FALSE
  /\ sortEntries = FALSE
  /\ stylesheet = NoObject

NextText ==
  \/ \E k \in DOMAIN TextOptionPool :
       ConstructFrom(TextOptionPool, k, FALSE, FALSE, NoObject)
  \/ /\ entries = <<>>
     /\ \E field \in {"title", "summary", "rights"} :
          \E value \in TextValues(field) : BuildEntry(1, field, value)
  \/ AddEntry(1)
  \/ Clear
  \/ ToXml

SpecText == InitText /\ [][NextText]_vars

\* feeds constructed with any generator: none, a complete one, one without a
\* name, one with an empty name, one with a malformed uri
Generator(name, uri) == [name |-> name, version |-> "1", uri |-> uri]

GeneratorOptionPool ==
  <<OptionPool[1],
    [OptionPool[1] EXCEPT !.generator = Generator("gen", UNDEFINED)],
    [OptionPool[1] EXCEPT !.generator = Generator("gen", "http://a")],
    [OptionPool[1] EXCEPT !.generator = Generator(UNDEFINED, UNDEFINED)],
    [OptionPool[1] EXCEPT !.generator = Generator("", "http://a")],
    [OptionPool[1] EXCEPT !.generator = Generator("gen", "bad")]>>

InitGenerator ==
  /\ InitRest
  /\ constructed = FALSE
  /\ options = NoObject
  /\ useNamespacePrefix = FALSE
  /\ sortEntries = FALSE
  /\ stylesheet = NoObject

NextGenerator ==
  \/ \E k \in DOMAIN GeneratorOptionPool, ns \in BOOLEAN :
       ConstructFrom(GeneratorOptionPool, k, ns, FALSE, NoObject)
  \/ \E k \in {1, 2} : AddEntry(k)
  \/ Clear
  \/ ToXml

SpecGenerator == InitGenerator /\ [][NextGenerator]_vars

\* one entry object with every combination of valid optional fields and
\* every kind of content, added to a feed and rendered
RichFields ==
  {"authors", "contributors", "categories", "content", "links", "published",
   "rights", "source", "summary"}

RichFieldValues(field) ==
  CASE field = "authors" -> {<<>>, <<Person("Ann", "a@b.c")>>}
    [] field = "contributors" -> {<<>>, <<Person("Bob", UNDEFINED)>>}
    [] field = "categories" -> {<<>>, <<Category("t", UNDEFINED)>>}
    [] field = "content" ->
         {NoObject,
          Content("Hello", UNDEFINED, "text"),
          Content("<em>x</em>", UNDEFINED, "html"),
          Content("<div xmlns=\"http://www.w3.org/1999/xhtml\">x</div>",
                  UNDEFINED, "xhtml"),
          Content(UNDEFINED, "http://a", "text/html"),
          Content("", "http://a", "text/html")}
    [] field = "links" -> {<<>>, <<Link("http://a", "alternate")>>}
    [] field = "published" -> {NoObject, Day2}
    [] field = "rights" -> {NoObject, XhtmlText}
    [] field = "source" -> {UNDEFINED, "urn:x"}
    [] field = "summary" -> {NoObject, Text("Hello")}

InitEntryDocument ==
  /\ InitOneEntry
  /\ \E o \in {OptionPool[1], FullOptions}, ns \in BOOLEAN :
       /\ constructorError(o) = OK
       /\ constructed = TRUE
       /\ options = o
       /\ useNamespacePrefix = ns
       /\ sortEntries = FALSE
       /\ stylesheet = NoObject

\* the caller completes its object before it adds it
NextEntryDocument ==
  \/ /\ entries = <<>>
     /\ \E field \in RichFields : \E value \in RichFieldValues(field) :
          BuildEntry(1, field, value)
  \/ AddEntry(1)
  \/ Clear
  \/ ToXml

SpecEntryDocument == InitEntryDocument /\ [][NextEntryDocument]_vars

(***************************************************************************)
(* Properties of the entry collection.                                     *)
(***************************************************************************)
\* the positions of array whose entry has another id than id
KeptPositions(h, array, id) == {j \in DOMAIN array : h[array[j]].id # id}

\* the i-th smallest member of a set of positions
NthPosition(positions, i) ==
  CHOOSE j \in positions : Cardinality({m \in positions : m < j}) = i - 1

\* C1: removeEntry(id) deletes every stored entry whose id is id, keeps the
\* other entries in their previous relative order, and returns true exactly
\* when an entry was deleted; with no match it returns false and the
\* collection is unchanged.
C1_RemoveEntryDeletesAllMatches ==
  [][last'.op = "removeEntry" =>
       LET kept == KeptPositions(heap, entries, last'.id)
       IN  /\ \A i \in DOMAIN entries' : heap[entries'[i]].id # last'.id
           /\ Len(entries') = Cardinality(kept)
           /\ \A i \in DOMAIN entries' :
                entries'[i] = entries[NthPosition(kept, i)]
           /\ last'.result = BoolText(Cardinality(kept) < Len(entries))
           /\ Cardinality(kept) = Len(entries) =>
                (entries' = entries /\ last'.result = "false")]_vars

\* removeEntry has returned true and left entries behind
C1_Witness ==
  /\ last.op = "removeEntry"
  /\ last.result = "true"
  /\ Len(entries) >= 2

\* C2: after any sequence of addEntry, removeEntry and clear calls,
\* getEntries() returns the values of the reference list, which appends each
\* validated entry (duplicates of an id included), filters out the id on
\* removeEntry and is emptied by clear.
C2_GetEntriesIsReferenceList ==
  Deref(heap, getEntries(entries).items) = reference

\* entries with the same id are stored side by side after a removal
C2_Witness ==
  /\ last.op = "removeEntry"
  /\ last.result = "true"
  /\ \E i, j \in DOMAIN entries :
       i < j /\ heap[entries[i]].id = heap[entries[j]].id

\* C3: an addEntry that fails validation raises and leaves the entry
\* collection, the links and the options as they were.
C3_FailedAddEntryChangesNothing ==
  [][(last'.op = "addEntry" /\ validateEntry(heap[last'.obj]) # OK) =>
       /\ last'.result = validateEntry(heap[last'.obj])
       /\ entries' = entries
       /\ heap' = heap
       /\ UNCHANGED feedVars]_vars

\* an addEntry has failed on a feed that holds entries
C3_Witness ==
  /\ last.op = "addEntry"
  /\ last.result # OK
  /\ Len(entries) >= 2

\* C4: the array getEntries() returns is a frozen snapshot: push, pop and
\* index assignment on it raise and change neither it nor the feed, and it
\* is not changed by later addEntry, removeEntry or clear calls.
C4_GetEntriesReturnsFrozenSnapshot ==
  [][/\ last'.op = "getEntries" => snapshot'.items = entries
     /\ last'.op \in {"push", "pop", "assign"} =>
          /\ last'.result # OK
          /\ entries' = entries
          /\ snapshot' = snapshot
     /\ (last'.op \in {"addEntry", "removeEntry", "clear"}
           /\ IsObject(snapshot)) =>
          snapshot'.items = snapshot.items]_vars

\* a push on a returned array has failed, and the array differs from the
\* collection, which has changed since
C4_Witness ==
  /\ last.op = "push"
  /\ last.result = TypeErrorMsg
  /\ IsObject(snapshot)
  /\ Len(snapshot.items) >= 1
  /\ snapshot.items # entries

\* C5: entries are copied on add: a later change of a field of the caller's
\* object, or of an entry object read from getEntries(), changes neither the
\* entries the feed holds nor what toXml() returns.
C5_EntriesAreCopiedOnAdd ==
  [][last'.op = "mutate" =>
       /\ Deref(heap', entries') = Deref(heap, entries)
       /\ toXml(options', heap', entries', useNamespacePrefix', sortEntries',
                stylesheet')
            = toXml(options, heap, entries, useNamespacePrefix, sortEntries,
                    stylesheet)]_vars

(***************************************************************************)
(* Properties of rendering.                                                *)
(***************************************************************************)
\* the feed element of a document and its entry elements, in document order
FeedElement(xml) == xml.elements[Len(xml.elements)]

EntryElements(xml, ns) ==
  SelectSeq(FeedElement(xml).elements,
            LAMBDA e : e.name = getElementName(ns, "entry"))

\* p orders the positions of array by descending updated, and positions
\* with the same updated by ascending position
IsStableDescending(p, h, array) ==
  /\ \A i \in DOMAIN array : \E j \in DOMAIN array : p[j] = i
  /\ \A i, j \in DOMAIN array :
       i < j =>
         \/ h[array[p[i]]].updated.time > h[array[p[j]]].updated.time
         \/ /\ h[array[p[i]]].updated.time = h[array[p[j]]].updated.time
            /\ p[i] < p[j]

\* C6: with sortEntries, toXml() emits the entry elements in descending
\* order of updated, entries with the same updated in the order in which
\* they were added; without it, in insertion order.
C6_EntriesRenderedInOrder ==
  (last.op = "toXml" /\ IsObject(lastXml)) =>
    LET rendered == EntryElements(lastXml, useNamespacePrefix)
        Element_(i) == createEntryElement(useNamespacePrefix, heap[entries[i]])
    IN  /\ Len(rendered) = Len(entries)
        /\ IF sortEntries
             THEN \E p \in [DOMAIN entries -> DOMAIN entries] :
                    /\ IsStableDescending(p, heap, entries)
                    /\ \A i \in DOMAIN entries : rendered[i] = Element_(p[i])
             ELSE \A i \in DOMAIN entries : rendered[i] = Element_(i)

\* a sorted document of three entries that were not added in sorted order,
\* two of them with the same updated
C6_Witness ==
  /\ last.op = "toXml"
  /\ IsObject(lastXml)
  /\ sortEntries
  /\ entries = <<1, 2, 3>>

\* C7: toXml() leaves the feed unchanged: the stored entries and their
\* order, so what getEntries() returns, and the options, flags and
\* stylesheet are the same before and after the call.
C7_ToXmlLeavesFeedUnchanged ==
  [][last'.op = "toXml" =>
       /\ getEntries(entries').items = getEntries(entries).items
       /\ heap' = heap
       /\ UNCHANGED feedVars]_vars

\* toXml() has returned for a sorting feed whose entries are stored in
\* another order than the sorted one
C7_Witness ==
  /\ last.op = "toXml"
  /\ last.result = OK
  /\ sortEntries
  /\ entries = <<3, 2>>

\* C8: two consecutive toXml() calls return the same document (or raise the
\* same error).
C8_ConsecutiveToXmlIdentical ==
  [][(last.op = "toXml" /\ last'.op = "toXml") =>
       (lastXml' = lastXml /\ last'.result = last.result)]_vars

\* toXml() has returned the document of a sorting feed that holds entries
\* with the same updated
C8_Witness ==
  /\ last.op = "toXml"
  /\ IsObject(lastXml)
  /\ sortEntries
  /\ entries = <<1, 3>>

(***************************************************************************)
(* Properties of validation.                                               *)
(***************************************************************************)
HasBothOrNeither(content) ==
  \/ Truthy(content.content) /\ Truthy(content.src)
  \/ ~Truthy(content.content) /\ ~Truthy(content.src)

\* C9: validateContent fails for a content construct with both a non-empty
\* content and a src, and for one with neither; addEntry of an entry with
\* such a content raises and stores nothing.
C9_ContentAndSrcExclusive ==
  [][(last'.op = "addEntry" /\ IsObject(heap[last'.obj].content)
        /\ HasBothOrNeither(heap[last'.obj].content)) =>
       /\ validateContent(heap[last'.obj].content)
            = IF Truthy(heap[last'.obj].content.src)
                THEN "Content cannot have both content and src"
                ELSE "Content must have either content or src"
       /\ last'.result # OK
       /\ entries' = entries]_vars

\* addEntry has rejected an entry whose content has both content and src
C9_Witness ==
  /\ last.op = "addEntry"
  /\ last.result = "Content cannot have both content and src"
  /\ Len(entries) >= 1

\* C10: constructing a feed whose options lack id, title or updated raises
\* the required-field error of the first missing field (id, title, updated),
\* whatever else is invalid in the options.
C10_RequiredFieldsCheckedFirst ==
  (last.op = "new" /\ last.obj # 0) =>
    LET o == OptionPool[last.obj]
    IN  /\ ~Truthy(o.id) => last.result = "Feed id is required"
        /\ (Truthy(o.id) /\ ~IsObject(o.title)) =>
             last.result = "Feed title is required"
        /\ (Truthy(o.id) /\ IsObject(o.title) /\ ~IsObject(o.updated)) =>
             last.result = "Feed updated date is required"

(***************************************************************************)
(* Properties of validation.                                               *)
(***************************************************************************)
\* the error of the entry's own required fields, in the order id, title,
\* updated, updated a Date, updated a valid instant
RequiredFieldError(entry) ==
  FirstError(
    <<IF Truthy(entry.id) THEN OK ELSE "Entry id is required",
      IF IsObject(entry.title) THEN OK ELSE "Entry title is required",
      IF IsObject(entry.updated) THEN OK ELSE "Entry updated date is required",
      IF IsObject(entry.updated) /\ ~entry.updated.isDate
        THEN "Entry updated must be a Date object" ELSE OK,
      IF IsObject(entry.updated) /\ entry.updated.isDate
           /\ ~isValidRfc3339Date(entry.updated)
        THEN "Entry updated must be a valid RFC 3339 date" ELSE OK>>)

\* the errors of the nested constructs of an entry that has its required
\* fields, in the order title text, content, summary, rights, authors,
\* contributors, categories, links, published
NestedErrors(entry) ==
  <<validateTextConstruct(entry.title, "Entry title"),
    IF IsObject(entry.content) THEN validateContent(entry.content) ELSE OK,
    IF IsObject(entry.summary)
      THEN validateTextConstruct(entry.summary, "Entry summary") ELSE OK,
    IF IsObject(entry.rights)
      THEN validateTextConstruct(entry.rights, "Entry rights") ELSE OK>>
  \o [i \in DOMAIN entry.authors |-> validatePerson(entry.authors[i])]
  \o [i \in DOMAIN entry.contributors |->
        validatePerson(entry.contributors[i])]
  \o [i \in DOMAIN entry.categories |-> validateCategory(entry.categories[i])]
  \o [i \in DOMAIN entry.links |-> validateLink(entry.links[i])]
  \o <<IF IsObject(entry.published) /\ ~isValidRfc3339Date(entry.published)
         THEN "Entry published must be a valid RFC 3339 date" ELSE OK>>

\* C11: validateEntry (reached through addEntry) raises one error, the first
\* in the order: the entry's own required fields, then its nested constructs;
\* a missing required field is never reported as a nested construct's error.
C11_ValidateEntryReportsFirstError ==
  last.op = "addEntry" =>
    IF RequiredFieldError(heap[last.obj]) # OK
      THEN last.result = RequiredFieldError(heap[last.obj])
      ELSE last.result = FirstError(NestedErrors(heap[last.obj]))

\* addEntry has reported the missing id of an entry that also has no valid
\* date, an empty content construct and an invalid link
C11_Witness ==
  /\ last.op = "addEntry"
  /\ last.result = "Entry id is required"
  /\ heap[last.obj].updated = InvalidDate
  /\ heap[last.obj].content = EmptyContent
  /\ heap[last.obj].links # <<>>

\* C12: setLinks(links) either validates every link and replaces the whole
\* link list by links, in order, or raises the error of the first invalid
\* link and leaves the link list (and the rest of the feed) as it was.
C12_SetLinksAllOrNothing ==
  [][last'.op = "setLinks" =>
       IF \A i \in DOMAIN LinkListPool[last'.obj] :
            validateLink(LinkListPool[last'.obj][i]) = OK
         THEN /\ last'.result = OK
              /\ options' = [options EXCEPT !.hasLinks = TRUE,
                                            !.links = LinkListPool[last'.obj]]
         ELSE /\ last'.result =
                   FirstError([i \in DOMAIN LinkListPool[last'.obj] |->
                                 validateLink(LinkListPool[last'.obj][i])])
              /\ options' = options]_vars

\* setLinks has failed on a list whose first link is valid, on a feed that
\* holds another, non-empty link list
C12_Witness ==
  /\ last.op = "setLinks"
  /\ last.result # OK
  /\ validateLink(LinkListPool[last.obj][1]) = OK
  /\ options.links # <<>>
  /\ options.links # <<LinkListPool[last.obj][1]>>

(***************************************************************************)
(* Properties of the language tag validator.  The grammar: its subtags are *)
(* ASCII letters and digits, compared without regard to case.              *)
(***************************************************************************)
GrammarLetters(subtag, lo, hi) ==
  /\ Len(subtag) \in lo..hi
  /\ \A i \in DOMAIN subtag : IsLetter(subtag[i])

GrammarAlnum(subtag, lo, hi) ==
  /\ Len(subtag) \in lo..hi
  /\ \A i \in DOMAIN subtag : IsAlnum(subtag[i])

GrammarRegion(subtag) ==
  \/ GrammarLetters(subtag, 2, 2)
  \/ (Len(subtag) = 3 /\ \A i \in DOMAIN subtag : IsDigit(subtag[i]))

GrammarVariant(subtag) ==
  \/ GrammarAlnum(subtag, 5, 8)
  \/ (GrammarAlnum(subtag, 4, 4) /\ IsDigit(subtag[1]))

GrammarSingleton(subtag) ==
  GrammarAlnum(subtag, 1, 1) /\ subtag[1] \notin {"x", "X"}

GrammarIsX(subtag) == subtag \in {<<"x">>, <<"X">>}

\* subtags[from..to] is a sequence of extensions: each a singleton and at
\* least one subtag of 2 to 8 alphanumerics
GrammarExtensions(subtags, from, to) ==
  /\ \A i \in from..to :
       GrammarSingleton(subtags[i]) \/ GrammarAlnum(subtags[i], 2, 8)
  /\ from <= to => GrammarSingleton(subtags[from])
  /\ \A i \in from..to :
       GrammarSingleton(subtags[i]) =>
         (i < to /\ GrammarAlnum(subtags[i + 1], 2, 8))

\* subtags[from..] is a private use part: x and at least one subtag of 1 to
\* 8 alphanumerics
GrammarPrivateUse(subtags, from) ==
  /\ from < Len(subtags)
  /\ GrammarIsX(subtags[from])
  /\ \A i \in (from + 1)..Len(subtags) : GrammarAlnum(subtags[i], 1, 8)

\* the whole sequence of subtags is derived by the grammar: e extlangs, s
\* scripts, r regions and v variants, extensions up to position p
Derivable(subtags) ==
  \/ GrammarPrivateUse(subtags, 1)
  \/ /\ Len(subtags) >= 1
     /\ \E e \in 0..3, s \in 0..1, r \in 0..1, v \in 0..Len(subtags),
           p \in 1..(Len(subtags) + 1) :
          /\ 1 + e + s + r + v < p
          /\ IF e = 0 THEN GrammarLetters(subtags[1], 2, 8)
                      ELSE GrammarLetters(subtags[1], 2, 3)
          /\ \A i \in 2..(1 + e) : GrammarLetters(subtags[i], 3, 3)
          /\ s = 1 => GrammarLetters(subtags[2 + e], 4, 4)
          /\ r = 1 => GrammarRegion(subtags[1 + e + s + r])
          /\ \A i \in (2 + e + s + r)..(1 + e + s + r + v) :
               GrammarVariant(subtags[i])
          /\ GrammarExtensions(subtags, 2 + e + s + r + v, p - 1)
          /\ p <= Len(subtags) => GrammarPrivateUse(subtags, p)

\* C13: isValidLanguageTag returns true exactly when the whole sequence of
\* subtags of its argument is derived by the grammar.
C13_ValidExactlyWhenDerivable ==
  last.op = "isValidLanguageTag" => (last.result = "true" <=> Derivable(tag))

(***************************************************************************)
(* Properties of the rendered document.                                    *)
(***************************************************************************)
\* count copies of name
Repeat(name, count) == [i \in 1..count |-> name]

Present(b) == IF b THEN 1 ELSE 0

\* the names of the elements of a sequence of nodes
Names(elements) == [i \in DOMAIN elements |-> elements[i].name]

\* the names of the children of the feed element, for a feed of n entries:
\* one per field that is present, one per item of a list, in the fixed order
ExpectedFeedNames(o, n) ==
  Repeat("id", 1) \o Repeat("title", 1) \o Repeat("updated", 1)
  \o Repeat("author", Len(o.authors))
  \o Repeat("contributor", Len(o.contributors))
  \o Repeat("category", Len(o.categories))
  \o Repeat("generator", Present(IsObject(o.generator)))
  \o Repeat("icon", Present(o.icon # UNDEFINED))
  \o Repeat("link", Len(o.links))
  \o Repeat("logo", Present(o.logo # UNDEFINED))
  \o Repeat("rights", Present(IsObject(o.rights)))
  \o Repeat("subtitle", Present(IsObject(o.subtitle)))
  \o Repeat("entry", n)

\* C14: the children of the feed element are in the order id, title,
\* updated, authors, contributors, categories, generator, icon, links, logo,
\* rights, subtitle, and then the entries; an absent field or an empty list
\* yields no element.
C14_FeedChildrenInFixedOrder ==
  (last.op = "toXml" /\ IsObject(lastXml)) =>
    Names(FeedElement(lastXml).elements)
      = [i \in DOMAIN ExpectedFeedNames(options, Len(entries)) |->
           getElementName(useNamespacePrefix,
                          ExpectedFeedNames(options, Len(entries))[i])]

\* a rendered feed of two entries with authors, an icon, links, rights and a
\* subtitle, and without contributors, generator and logo
C14_Witness ==
  /\ last.op = "toXml"
  /\ IsObject(lastXml)
  /\ Len(entries) = 2
  /\ options.authors # <<>>
  /\ options.contributors = <<>>
  /\ ~IsObject(options.generator)
  /\ options.icon # UNDEFINED
  /\ options.links # <<>>
  /\ options.logo = UNDEFINED
  /\ IsObject(options.rights)
  /\ IsObject(options.subtitle)

\* the names of the children of the element of entry e
ExpectedEntryNames(e) ==
  Repeat("id", 1) \o Repeat("title", 1) \o Repeat("updated", 1)
  \o Repeat("author", Len(e.authors))
  \o Repeat("contributor", Len(e.contributors))
  \o Repeat("category", Len(e.categories))
  \o Repeat("content", Present(IsObject(e.content)))
  \o Repeat("link", Len(e.links))
  \o Repeat("published", Present(IsObject(e.published)))
  \o Repeat("rights", Present(IsObject(e.rights)))
  \o Repeat("source", Present(e.source # UNDEFINED))
  \o Repeat("summary", Present(IsObject(e.summary)))

\* C15: every entry element has its children in the order id, title,
\* updated, authors, contributors, categories, content, links, published,
\* rights, source, summary, and a field the entry does not have yields no
\* element.
C15_EntryChildrenInFixedOrder ==
  (last.op = "toXml" /\ IsObject(lastXml)) =>
    \A i \in DOMAIN entries :
      Names(EntryElements(lastXml, useNamespacePrefix)[i].elements)
        = [j \in DOMAIN ExpectedEntryNames(heap[entries[i]]) |->
             getElementName(useNamespacePrefix,
                            ExpectedEntryNames(heap[entries[i]])[j])]

\* a rendered entry with content, links, source and summary and without
\* authors, published and rights
C15_Witness ==
  /\ last.op = "toXml"
  /\ IsObject(lastXml)
  /\ entries # <<>>
  /\ IsObject(heap[entries[1]].content)
  /\ heap[entries[1]].links # <<>>
  /\ heap[entries[1]].source # UNDEFINED
  /\ IsObject(heap[entries[1]].summary)
  /\ heap[entries[1]].authors = <<>>
  /\ ~IsObject(heap[entries[1]].published)
  /\ ~IsObject(heap[entries[1]].rights)

\* the names of the elements among nodes, at any depth
RECURSIVE NamesIn(_)
NamesIn(nodes) ==
  UNION {IF nodes[i].type = "element"
           THEN {nodes[i].name} \cup NamesIn(nodes[i].elements)
           ELSE {} : i \in DOMAIN nodes}

\* the names of the child elements of the elements named name, at any depth
RECURSIVE ChildrenOf(_, _)
ChildrenOf(nodes, name) ==
  UNION {IF nodes[i].type = "element"
           THEN (IF nodes[i].name = name
                   THEN {nodes[i].elements[j].name :
                           j \in {k \in DOMAIN nodes[i].elements :
                                    nodes[i].elements[k].type = "element"}}
                   ELSE {})
                  \cup ChildrenOf(nodes[i].elements, name)
           ELSE {} : i \in DOMAIN nodes}

AtomNames ==
  {"feed", "entry", "id", "title", "updated", "author", "contributor",
   "category", "generator", "icon", "link", "logo", "rights", "subtitle",
   "content", "published", "source", "summary", "name", "email", "uri"}

PrefixedNames == {"atom:" \o name : name \in AtomNames}

AttributeNames(element) ==
  {element.attributes[i][1] : i \in DOMAIN element.attributes}

\* C16 as stated: with useNamespacePrefix every element name of the document,
\* at any depth, carries the atom: prefix and xmlns:atom is declared; without
\* it no element name carries the prefix and xmlns is declared.
C16_EveryElementPrefixed ==
  (last.op = "toXml" /\ IsObject(lastXml)) =>
    IF useNamespacePrefix
      THEN /\ NamesIn(lastXml.elements) \subseteq PrefixedNames
           /\ "xmlns:atom" \in AttributeNames(FeedElement(lastXml))
      ELSE /\ NamesIn(lastXml.elements) \cap PrefixedNames = {}
           /\ "xmlns" \in AttributeNames(FeedElement(lastXml))

\* C16, amended: with useNamespacePrefix every element name carries the
\* atom: prefix except the div that wraps xhtml text, which is named div and
\* occurs only as a child of a text construct or content element; xmlns:atom
\* is declared and xmlns is not.  Without it every element has its plain name
\* and xmlns is declared.
C16_AtomElementsPrefixed ==
  (last.op = "toXml" /\ IsObject(lastXml)) =>
    IF useNamespacePrefix
      THEN /\ NamesIn(lastXml.elements) \subseteq PrefixedNames \cup {"div"}
           /\ FeedElement(lastXml).name = "atom:feed"
           /\ \A name \in PrefixedNames \ {"atom:title", "atom:subtitle",
                                            "atom:rights", "atom:summary",
                                            "atom:content"} :
                "div" \notin ChildrenOf(lastXml.elements, name)
           /\ AttributeNames(FeedElement(lastXml)) = {"xmlns:atom"}
      ELSE /\ NamesIn(lastXml.elements) \subseteq AtomNames \cup {"div"}
           /\ FeedElement(lastXml).name = "feed"
           /\ AttributeNames(FeedElement(lastXml)) = {"xmlns"}

\* a prefixed document with feed rights of type xhtml and an entry that has
\* an author and content of type xhtml
C16_Witness ==
  /\ last.op = "toXml"
  /\ IsObject(lastXml)
  /\ useNamespacePrefix
  /\ options = FullOptions
  /\ entries # <<>>
  /\ heap[entries[1]].authors # <<>>
  /\ IsObject(heap[entries[1]].content)
  /\ heap[entries[1]].content.type = "xhtml"

\* the child of element that is named name
Child(element, name) ==
  element.elements[CHOOSE j \in DOMAIN element.elements :
                     element.elements[j].name = name]

\* the text constructs and content of entry e that are rendered with child
\* nodes, each with the element that element holds for it
RenderedConstructs(e, element, ns) ==
  {<<e[field], Child(element, getElementName(ns, field))>> :
     field \in {f \in {"title", "summary", "rights", "content"} :
                  /\ IsObject(e[f])
                  /\ (f = "content" => ~Truthy(e[f].src))}}

\* C17 as stated: what is written inside the element of a text construct or
\* content of type xhtml is the supplied markup, once and unescaped; what is
\* written inside the element of any other type is the escaped text.  The
\* children of a child of an entry element are at depth 3 of the document.
C17_XhtmlInsertedAsMarkup ==
  (last.op = "toXml" /\ IsObject(lastXml)) =>
    \A i \in DOMAIN entries :
      \A pair \in RenderedConstructs(
                     heap[entries[i]],
                     EntryElements(lastXml, useNamespacePrefix)[i],
                     useNamespacePrefix) :
        writeElements(pair[2].elements, 3, FALSE)
          = IF pair[1].type = "xhtml"
              THEN writeIndentation(3, FALSE)
                     \o Chars(pair[1].content)
              ELSE writeText(pair[1].content)

\* the content element of entry element number i of the document
ContentElement(i) ==
  Child(EntryElements(lastXml, useNamespacePrefix)[i],
        getElementName(useNamespacePrefix, "content"))

\* what C18 says of the element rendered for a content construct
ContentShape(content, element) ==
  IF Truthy(content.src)
    THEN /\ <<"src", content.src>>
              \in {element.attributes[j] : j \in DOMAIN element.attributes}
         /\ element.elements = <<>>
    ELSE /\ "src" \notin AttributeNames(element)
         /\ Len(element.elements) = 1
         /\ IF content.type = "xhtml"
              THEN /\ element.elements[1].type = "element"
                   /\ element.elements[1].name = "div"
              ELSE element.elements[1] = TextNode(content.content)

\* C18: the content element of a content construct with a src has the src
\* attribute and no child node; the content element of one without src has
\* exactly one child, the div for type xhtml and a text node otherwise.
C18_SrcContentHasNoChild ==
  (last.op = "toXml" /\ IsObject(lastXml)) =>
    \A i \in DOMAIN entries :
      IsObject(heap[entries[i]].content) =>
        ContentShape(heap[entries[i]].content, ContentElement(i))

\* a rendered entry whose content has a src and the empty string as content
C18_Witness ==
  /\ last.op = "toXml"
  /\ IsObject(lastXml)
  /\ entries # <<>>
  /\ IsObject(heap[entries[1]].content)
  /\ heap[entries[1]].content.src = "http://a"
  /\ heap[entries[1]].content.content = ""

\* the type the xml-stylesheet instruction of a stylesheet has to carry
ExpectedStylesheetType(s) == IF s.type = UNDEFINED THEN "text/xsl" ELSE s.type

\* C19: the document holds the xml-stylesheet processing instruction exactly
\* when a stylesheet is configured; it comes after the XML declaration and
\* before the root feed element, which is the only other node, and its type
\* is the configured type, or text/xsl when none is given.
C19_StylesheetInstructionWhenConfigured ==
  (last.op = "toXml" /\ IsObject(lastXml)) =>
    /\ lastXml.declaration = [version |-> "1.0", encoding |-> "utf-8"]
    /\ Len(lastXml.elements) = 1 + Present(IsObject(stylesheet))
    /\ FeedElement(lastXml).type = "element"
    /\ FeedElement(lastXml).name = getElementName(useNamespacePrefix, "feed")
    /\ IsObject(stylesheet) =>
         /\ lastXml.elements[1].type = "instruction"
         /\ lastXml.elements[1].name = "xml-stylesheet"
         /\ lastXml.elements[1].instruction
              = "type=\"" \o ExpectedStylesheetType(stylesheet)
                  \o "\" href=\"" \o encodeURI(stylesheet.href) \o "\""

\* a document rendered for a feed whose stylesheet has no type
C19_Witness ==
  /\ last.op = "toXml"
  /\ IsObject(lastXml)
  /\ IsObject(stylesheet)
  /\ stylesheet.type = UNDEFINED
  /\ lastXml.elements[1].type = "instruction"

\* what an XML parser reads back from written text: the character references
\* of the markup characters decoded
RECURSIVE readText(_)
readText(chars) ==
  IF chars = <<>> THEN <<>>
  ELSE IF Len(chars) >= 4 /\ SubSeq(chars, 1, 4) = <<"&", "l", "t", ";">>
    THEN <<"<">> \o readText(SubSeq(chars, 5, Len(chars)))
  ELSE IF Len(chars) >= 4 /\ SubSeq(chars, 1, 4) = <<"&", "g", "t", ";">>
    THEN <<">">> \o readText(SubSeq(chars, 5, Len(chars)))
  ELSE IF Len(chars) >= 5 /\ SubSeq(chars, 1, 5) = <<"&", "a", "m", "p", ";">>
    THEN <<"&">> \o readText(SubSeq(chars, 6, Len(chars)))
  ELSE <<Head(chars)>> \o readText(Tail(chars))

\* the text read back from the child named name of element
ReadBack(element, name) ==
  readText(writeElements(
             Child(element, getElementName(useNamespacePrefix, name)).elements,
             0, TRUE))

Orderings(n) ==
  {p \in [1..n -> 1..n] : \A i \in 1..n : \E j \in 1..n : p[j] = i}

\* C20 as stated: the id and the title content read back from the document
\* are the ones supplied, the updated element holds the supplied instant,
\* and there is one entry element per stored entry, each holding the id of
\* its entry (in stored order unless the feed sorts its entries).
C20_DocumentCarriesFeedAndEntryIds ==
  (last.op = "toXml" /\ IsObject(lastXml)) =>
    /\ ReadBack(FeedElement(lastXml), "id") = Chars(options.id)
    /\ ReadBack(FeedElement(lastXml), "title") = Chars(options.title.content)
    /\ Child(FeedElement(lastXml),
             getElementName(useNamespacePrefix, "updated")).elements
         = <<TextNode(IsoText(options.updated.time))>>
    /\ Len(EntryElements(lastXml, useNamespacePrefix)) = Len(entries)
    /\ \E p \in Orderings(Len(entries)) :
         /\ ~sortEntries => \A i \in DOMAIN entries : p[i] = i
         /\ \A i \in DOMAIN entries :
              ReadBack(EntryElements(lastXml, useNamespacePrefix)[i], "id")
                = Chars(heap[entries[p[i]]].id)

\* a Date object whose instant is valid and renders as an RFC 3339 date
ValidDateValue(v) == v # NoObject /\ v.isDate /\ isValidRfc3339Date(v)

\* updated is not a valid date, or published is present and not a valid date
BadDates(e) ==
  \/ ~ValidDateValue(e.updated)
  \/ e.published # NoObject /\ ~ValidDateValue(e.published)

\* C21 as stated: construction fails when updated is absent, not a date or an
\* invalid date; addEntry fails when updated is such a value or published is
\* present and is not a valid date, whatever kind of value it is; no feed and
\* no stored entry has such a date.
C21_BadDatesAreRejected ==
  /\ (last.op = "new" /\ last.obj \in DOMAIN OptionPool
        /\ ~ValidDateValue(OptionPool[last.obj].updated)) => last.result # OK
  /\ constructed => ValidDateValue(options.updated)
  /\ (last.op = "addEntry" /\ BadDates(heap[last.obj])) => last.result # OK
  /\ \A i \in DOMAIN entries : ~BadDates(heap[entries[i]])

\* the type of text construct c is present (the field is set, to the empty
\* string included) and is none of the three
UnsupportedType(c) ==
  c.type # UNDEFINED /\ c.type \notin {"text", "html", "xhtml"}

\* content is wrapped in the div element of the XHTML namespace
HasDivWrapper(content) ==
  /\ StartsWith(trim(Chars(content)), XhtmlDivOpen)
  /\ EndsWith(trim(Chars(content)), XhtmlDivClose)

\* construct c, when present, has a supported type or none, and the div
\* wrapper when its type is xhtml
TextConstructPasses(c) ==
  IsObject(c) =>
    /\ ~UnsupportedType(c)
    /\ c.type = "xhtml" => HasDivWrapper(c.content)

\* C22: construction and addEntry reject a text construct whose type is
\* present and is not text, html or xhtml, and one of type xhtml without the
\* div wrapper; they accept every other one, a construct without type
\* included.
C22_TextConstructTypeIsChecked ==
  /\ (last.op = "new" /\ last.obj \in DOMAIN TextOptionPool) =>
        (last.result = OK
           <=> \A i \in DOMAIN FeedTextFields :
                 TextConstructPasses(TextOptionPool[last.obj][FeedTextFields[i]]))
  /\ last.op = "addEntry" =>
        (last.result = OK
           <=> \A field \in {"title", "summary", "rights"} :
                 TextConstructPasses(heap[last.obj][field]))
  /\ constructed =>
        \A i \in DOMAIN FeedTextFields :
          TextConstructPasses(options[FeedTextFields[i]])
  /\ \A i \in DOMAIN entries :
        \A field \in {"title", "summary", "rights"} :
          TextConstructPasses(heap[entries[i]][field])



\* generator g lacks a name or has a uri that is not a valid IRI
BadGenerator(g) ==
  /\ IsObject(g)
  /\ ~Truthy(g.name) \/ (Truthy(g.uri) /\ ~isValidIri(g.uri))

\* C23 as stated: construction rejects options whose generator lacks a name
\* or has a malformed uri, so the generator of a constructed feed has a
\* non-empty name and every rendered generator element has non-empty text.
C23_GeneratorIsValidated ==
  /\ (last.op = "new" /\ last.obj \in DOMAIN GeneratorOptionPool
        /\ BadGenerator(GeneratorOptionPool[last.obj].generator))
       => last.result # OK
  /\ constructed => ~BadGenerator(options.generator)
  /\ (last.op = "toXml" /\ IsObject(lastXml) /\ IsObject(options.generator))
       => Truthy(Child(FeedElement(lastXml),
                       getElementName(useNamespacePrefix, "generator")
                      ).elements[1].text)

\* the link elements of the document
LinkElements(xml, ns) ==
  SelectSeq(FeedElement(xml).elements,
            LAMBDA e : e.name = getElementName(ns, "link"))

\* C24 as stated: a write to the list getLinks() returns fails or leaves the
\* links of the feed as they were, so every link the feed holds has passed
\* validateLink, and so has every link toXml() emits.
C24_GetLinksHidesBackingList ==
  /\ constructed =>
       \A i \in DOMAIN options.links : validateLink(options.links[i]) = OK
  /\ (last.op = "toXml" /\ IsObject(lastXml)) =>
       \A i \in DOMAIN LinkElements(lastXml, useNamespacePrefix) :
         <<"href", "bad">>
           \notin {LinkElements(lastXml, useNamespacePrefix)[i].attributes[j] :
                     j \in DOMAIN
                       LinkElements(lastXml, useNamespacePrefix)[i].attributes}

\* a Date whose instant is invalid or does not render as an RFC 3339 date
IsInvalidDate(d) == d = InvalidDate \/ d = FarDate

InvalidAtRender ==
  \/ IsInvalidDate(options.updated)
  \/ \E i \in DOMAIN entries :
       \/ IsInvalidDate(heap[entries[i]].updated)
       \/ IsInvalidDate(heap[entries[i]].published)

\* C25 as stated: when the updated of the feed, or the updated or published
\* of a stored entry, is an invalid date at render time, toXml() throws the
\* invalid RFC 3339 date error and returns no document, whether sortEntries
\* is set or not.
C25_InvalidDateFailsRendering ==
  (last.op = "toXml" /\ InvalidAtRender)
    => last.result = "Invalid RFC 3339 date" /\ lastXml = NoObject

(***************************************************************************)
(* Properties of BlogFeed.                                                 *)
(***************************************************************************)
\* the entries the feed stores, as values in stored order
StoredEntries == [i \in DOMAIN entries |-> heap[entries[i]]]

\* C26: a RawAtomFeed built without a sortEntries argument renders its
\* entries in insertion order, a BlogFeed renders its posts sorted by
\* updated descending, where a post's updated is its own updated, else its
\* published date; getEntries()/getPosts() returns the entries in insertion
\* order in both.
C26_BlogSortsRawKeepsInsertionOrder ==
  /\ constructed => sortEntries = blog
  /\ StoredEntries = reference
  /\ last.op = "getEntries" => snapshot.items = entries
  /\ (last.op = "addPost" /\ last.result = OK) =>
       LET post == PostPool[last.obj]
           added == heap[entries[Len(entries)]]
       IN  IF IsObject(post.updated) THEN added.updated = post.updated
           ELSE IF IsObject(post.published)
             THEN added.updated = post.published
           ELSE added.updated \in NowDates
  /\ (last.op = "toXml" /\ IsObject(lastXml)) =>
       LET rendered == EntryElements(lastXml, useNamespacePrefix)
           Element_(i) == createEntryElement(useNamespacePrefix, heap[entries[i]])
       IN  /\ last.result = OK
           /\ Len(rendered) = Len(entries)
           /\ IF blog
                THEN \E p \in [DOMAIN entries -> DOMAIN entries] :
                       /\ IsStableDescending(p, heap, entries)
                       /\ \A i \in DOMAIN entries : rendered[i] = Element_(p[i])
                ELSE \A i \in DOMAIN entries : rendered[i] = Element_(i)

\* a BlogFeed has rendered three posts that were added in another order than
\* the sorted one, one of them dated by its published date
C26_Witness ==
  /\ blog
  /\ last.op = "toXml"
  /\ IsObject(lastXml)
  /\ Len(entries) = 3
  /\ heap[entries[1]].updated.time < heap[entries[2]].updated.time
  /\ \E i \in DOMAIN entries :
       /\ heap[entries[i]].published = Day2
       /\ heap[entries[i]].updated = Day2


\* the links of a list that are, or are not, pagination links
PaginationLinksOf(links) ==
  SelectSeq(links, LAMBDA link : link.rel \in PaginationRels)

OtherLinksOf(links) ==
  SelectSeq(links, LAMBDA link : link.rel \notin PaginationRels)

PaginationFields == {"first", "last", "next", "previous", "current"}

RelOf(field) == IF field = "current" THEN "self" ELSE field

\* the links a pagination object gives: one for each field it holds
GivenLinks(p) ==
  {Link(p[f], RelOf(f)) : f \in {g \in PaginationFields : p[g] # UNDEFINED}}

\* one for each field it holds a non-empty href in
GivenNonEmptyLinks(p) ==
  {Link(p[f], RelOf(f)) : f \in {g \in PaginationFields : Truthy(p[g])}}

\* C29: setPagination(p) replaces exactly the links with rel first, last,
\* next, previous or self by the links given in p and keeps every other link
\* in its order, so that getPagination() right after it returns the fields
\* of p and no other; if a link of p is invalid the call raises and the
\* links are unchanged.
C29_SetPaginationReplacesPaginationLinks ==
  [][last'.op = "setPagination" =>
       LET p == PaginationPool[last'.obj]
       IN  IF \E link \in GivenLinks(p) : validateLink(link) # OK
             THEN last'.result # OK /\ options' = options
             ELSE /\ last'.result = OK
                  /\ OtherLinksOf(options'.links) = OtherLinksOf(options.links)
                  /\ Range(PaginationLinksOf(options'.links)) = GivenLinks(p)
                  /\ getPagination(options') = p]_vars

\* C29, amended: the links given in p are those of its fields that hold a
\* non-empty href; a field that holds an empty string gives no link, is not
\* validated, and is absent from what getPagination() returns.
C29_SetPaginationReplacesNonEmptyLinks ==
  [][last'.op = "setPagination" =>
       LET p == PaginationPool[last'.obj]
       IN  IF \E link \in GivenNonEmptyLinks(p) : validateLink(link) # OK
             THEN last'.result # OK /\ options' = options
             ELSE /\ last'.result = OK
                  /\ OtherLinksOf(options'.links) = OtherLinksOf(options.links)
                  /\ Range(PaginationLinksOf(options'.links))
                       = GivenNonEmptyLinks(p)
                  /\ Len(PaginationLinksOf(options'.links))
                       = Cardinality(GivenNonEmptyLinks(p))
                  /\ getPagination(options')
                       = [f \in PaginationFields |->
                            IF Truthy(p[f]) THEN p[f] ELSE UNDEFINED]]_vars

\* setPagination has replaced the first and self links the feed was built
\* with by a next link, and the two alternate links are still there
C29_Witness ==
  /\ blog
  /\ last.op = "setPagination"
  /\ last.result = OK
  /\ last.obj = 2
  /\ Len(OtherLinksOf(options.links)) = 2
  /\ getPagination(options).next = "http://b"
  /\ getPagination(options).first = UNDEFINED


(***************************************************************************)
(* Properties of a feed used through its methods only.                     *)
(***************************************************************************)
\* C27: in every state reachable through the constructor, addEntry,
\* removeEntry, clear and setLinks alone, toXml() returns a document without
\* raising.
C27_ValidatedFeedAlwaysRenders ==
  last.op = "toXml" => (last.result = OK /\ IsObject(lastXml))


\* a content construct that has a src, a valid IRI, and no content
IsRemoteReference(content) ==
  /\ IsObject(content)
  /\ ~Truthy(content.content)
  /\ Truthy(content.src)
  /\ isValidIri(content.src)

\* C28: a content construct that has only a src (a valid IRI) and no content
\* is accepted by addEntry for every value of type, xhtml and base64
\* included.
C28_RemoteContentAcceptedForEveryType ==
  (last.op = "addEntry" /\ IsRemoteReference(heap[last.obj].content)) =>
    last.result = OK


(***************************************************************************)
(* Properties of href encoding.                                            *)
(***************************************************************************)
HexDigits == Range(DigitChars) \cup {"A", "B", "C", "D", "E", "F",
                                     "a", "b", "c", "d", "e", "f"}

\* href holds only URI-safe characters and percent-escapes
IsPercentEncoded(href) ==
  LET cs == Chars(href)
  IN  \A i \in DOMAIN cs :
        \/ cs[i] \in UriUnescaped
        \/ /\ cs[i] = "%"
           /\ i + 2 <= Len(cs)
           /\ cs[i + 1] \in HexDigits
           /\ cs[i + 2] \in HexDigits

\* C30: the percent-encoding of link and stylesheet hrefs at render time is
\* idempotent: an href that holds only URI-safe characters and
\* percent-escapes, one that already holds %20 for example, is emitted
\* unchanged.
C30_EncodedHrefEmittedUnchanged ==
  (last.op = "toXml" /\ IsObject(lastXml)) =>
    /\ \A i \in DOMAIN options.links :
         IsPercentEncoded(options.links[i].href) =>
           LinkElements(lastXml, useNamespacePrefix)[i].attributes[1]
             = <<"href", options.links[i].href>>
    /\ (IsObject(stylesheet) /\ IsPercentEncoded(stylesheet.href)) =>
         lastXml.elements[1].instruction
           = "type=\"text/xsl\" href=\"" \o stylesheet.href \o "\""

====
